---- MODULE Spec2Model ----
(***************************************************************************)
(* Model of the registry / dispatch-server core of the MCP reference       *)
(* server: the three process-wide registries (ToolRegistry,                *)
(* ResourceRegistry, PromptRegistry), the ErrorHandler policy and the      *)
(* MCPServer lifecycle and operations.                                     *)
(***************************************************************************)
EXTENDS Integers, Sequences, FiniteSets, TLC

VARIABLES
    _instance,          \* [Kinds -> 0..] the class attribute _instance of each registry class (0 = None)
    allocated,          \* [Kinds -> Nat] number of registry objects created so far, per class
    registries,         \* [Kinds -> Seq(Entity)] the class-level dicts _tools/_resources/_prompts (insertion ordered)
    direct,             \* [Kinds -> 0..] registry handle obtained by calling the class directly
    constructed,        \* [Servers -> BOOLEAN] MCPServer() has run
    server_registry,    \* [Servers -> [Kinds -> 0..]] tool_registry/resource_registry/prompt_registry of a server
    _initialized,       \* [Servers -> BOOLEAN] MCPServer._initialized
    raise_on_critical,  \* configuration value error_handling.raise_on_critical
    last,               \* the last call made: operation, arguments, exception raised, value returned
    _is_running,        \* BaseTransport._is_running of the STDIO transport
    pc,                 \* where STDIOTransport.run_server stands
    message,            \* run_server: the message receive_message returned
    response,           \* run_server: the response _handle_message returned
    invoked,            \* what the last call called beneath it (_execute_impl, an MCPServer operation)
    received,           \* the kinds of the lines read from stdin, in order
    sent,               \* number of lines written to stdout
    read_count,         \* [1..MaxIds -> Nat] StatusResource.read_count of each StatusResource object
    pool,               \* the worker pool of the batch / fetcher tool call under way: tasks, workers, results
    _request_id,        \* MCPClient._request_id: the number of requests the client has made
    threads,            \* the register call each thread is in: its entity, its position, its outcome
    stdin,              \* the lines the client has written that the server loop has not read yet
    stdout,             \* the lines the server loop has written that the client has not read yet
    waiting             \* the number of the request whose response the client is blocked on, 0 if none

vars == <<_instance, allocated, registries, direct, constructed,
          server_registry, _initialized, raise_on_critical, last,
          _is_running, pc, message, response, invoked, received, sent,
          read_count, pool, _request_id, threads, stdin, stdout, waiting>>

\* the state of the transport and of its run loop
transport_vars == <<_is_running, pc, message, response, invoked, received, sent>>

\* the state of the registries and of the servers
server_vars == <<_instance, allocated, registries, direct, constructed,
                 server_registry, _initialized, raise_on_critical>>

\* the state of the entity objects
entity_vars == <<read_count, pool, _request_id, threads, stdin, stdout, waiting>>

\* the state of the registering threads and of the pipes between client and server
session_vars == <<threads, stdin, stdout, waiting>>

----------------------------------------------------------------------------
(* Bounds *)

MaxIds == 2
MaxInit == 1
MaxObjects == 3
MaxOperand == 1
MaxLines == 2
MaxReads == 2
MaxItems == 3
MaxWorkers == 2
MaxRequests == 2

----------------------------------------------------------------------------
(* Entities *)

Kinds == {"tool", "resource", "prompt"}

\* two MCPServer objects in one process
Servers == {1, 2}

None == 0

\* no argument, no value (a call that raised returns nothing)
Nothing == [none |-> TRUE]

\* identity keys of the built-in entities: schema name, uri, prompt name
KeysOf(k) ==
    CASE k = "tool"     -> {"calculator", "echo"}
      [] k = "resource" -> {"config://app", "status://system"}
      [] k = "prompt"   -> {"code_review", "summarize"}

\* an entity is an object: its identity key plus the identity of the instance
Entities(k) == [key : KeysOf(k), id : 1..MaxIds]

\* the instances a server is started with: one per built-in entity
ServerEntities(k) == {e \in Entities(k) : e.id = 1}

NoExc == "none"
ResourceAlreadyExistsError == "ResourceAlreadyExistsError"
ResourceNotFoundError == "ResourceNotFoundError"
ServiceError == "ServiceError"
ValidationError == "ValidationError"
OtherException == "Exception"
AttributeError == "AttributeError"
ValueError == "ValueError"

\* subclasses of BaseApplicationError
BaseApplicationError ==
    {ResourceAlreadyExistsError, ResourceNotFoundError, ServiceError, ValidationError}

----------------------------------------------------------------------------
(* Registry classes *)

RegistryNewAlways(inst, n) == [obj |-> n + 1, inst |-> n + 1, n |-> n + 1]

\* cls.__new__: the singleton instance is created on the first construction
\* and returned on every later one
RegistryNew(inst, n) ==
    IF inst = None
    THEN [obj |-> n + 1, inst |-> n + 1, n |-> n + 1]
    ELSE [obj |-> inst, inst |-> inst, n |-> n]

\* name in self._tools
Contains(reg, key) == \E i \in 1..Len(reg) : reg[i].key = key

\* self._tools[name]
Lookup(reg, key) == reg[CHOOSE i \in 1..Len(reg) : reg[i].key = key]

\* len(self._tools)
Size(reg) == Len(reg)

\* list(self._tools.keys())
ListKeys(reg) == [i \in 1..Len(reg) |-> reg[i].key]

RegisterDropsEntity(reg, e) ==
    IF Contains(reg, e.key)
    THEN [reg |-> reg, exc |-> ResourceAlreadyExistsError]
    ELSE [reg |-> reg, exc |-> NoExc]

RegisterAtFront(reg, e) ==
    IF Contains(reg, e.key)
    THEN [reg |-> reg, exc |-> ResourceAlreadyExistsError]
    ELSE [reg |-> <<e>> \o reg, exc |-> NoExc]

RegisterOverwrite(reg, e) ==
    IF Contains(reg, e.key)
    THEN [reg |-> [i \in 1..Len(reg) |-> IF reg[i].key = e.key THEN e ELSE reg[i]],
          exc |-> NoExc]
    ELSE [reg |-> Append(reg, e), exc |-> NoExc]

\* register: the duplicate check, then the insertion at the end of the dict
Register(reg, e) ==
    IF Contains(reg, e.key)
    THEN [reg |-> reg, exc |-> ResourceAlreadyExistsError]
    ELSE [reg |-> Append(reg, e), exc |-> NoExc]

UnregisterClearsAll(reg, key) ==
    IF ~Contains(reg, key)
    THEN [reg |-> reg, exc |-> ResourceNotFoundError]
    ELSE [reg |-> <<>>, exc |-> NoExc]

\* unregister: the presence check, then del
Unregister(reg, key) ==
    IF ~Contains(reg, key)
    THEN [reg |-> reg, exc |-> ResourceNotFoundError]
    ELSE [reg |-> SelectSeq(reg, LAMBDA x : x.key # key), exc |-> NoExc]

\* get_tool / get_resource / get_prompt
Get(reg, key) ==
    IF ~Contains(reg, key)
    THEN [ret |-> Nothing, exc |-> ResourceNotFoundError]
    ELSE [ret |-> Lookup(reg, key), exc |-> NoExc]

\* clear
Clear(reg) == <<>>

Call(op, server, kind, arg, exc, ret) ==
    [op |-> op, server |-> server, kind |-> kind, arg |-> arg, exc |-> exc, ret |-> ret]

\* ToolRegistry() / ResourceRegistry() / PromptRegistry()
RegistryConstruct(k) ==
    /\ allocated[k] < MaxObjects
    /\ LET r == RegistryNew(_instance[k], allocated[k]) IN
        /\ _instance' = [_instance EXCEPT ![k] = r.inst]
        /\ allocated' = [allocated EXCEPT ![k] = r.n]
        /\ direct' = [direct EXCEPT ![k] = r.obj]
        /\ last' = Call("construct", None, k, Nothing, NoExc, [obj |-> r.obj])
    /\ UNCHANGED <<registries, constructed, server_registry, _initialized, raise_on_critical>>
    /\ UNCHANGED transport_vars
    /\ UNCHANGED entity_vars

RegistryRegister(k, e) ==
    /\ direct[k] # None
    /\ LET r == Register(registries[k], e) IN
        /\ registries' = [registries EXCEPT ![k] = r.reg]
        /\ last' = Call("register", None, k, e, r.exc, Nothing)
    /\ UNCHANGED <<_instance, allocated, direct, constructed, server_registry,
                   _initialized, raise_on_critical>>
    /\ UNCHANGED transport_vars
    /\ UNCHANGED entity_vars

RegistryUnregister(k, key) ==
    /\ direct[k] # None
    /\ LET r == Unregister(registries[k], key) IN
        /\ registries' = [registries EXCEPT ![k] = r.reg]
        /\ last' = Call("unregister", None, k, [key |-> key], r.exc, Nothing)
    /\ UNCHANGED <<_instance, allocated, direct, constructed, server_registry,
                   _initialized, raise_on_critical>>
    /\ UNCHANGED transport_vars
    /\ UNCHANGED entity_vars

RegistryGet(k, key) ==
    /\ direct[k] # None
    /\ LET r == Get(registries[k], key) IN
        last' = Call("get", None, k, [key |-> key], r.exc, r.ret)
    /\ UNCHANGED <<_instance, allocated, registries, direct, constructed,
                   server_registry, _initialized, raise_on_critical>>
    /\ UNCHANGED transport_vars
    /\ UNCHANGED entity_vars

RegistryClear(k) ==
    /\ direct[k] # None
    /\ registries' = [registries EXCEPT ![k] = Clear(registries[k])]
    /\ last' = Call("clear", None, k, Nothing, NoExc, Nothing)
    /\ UNCHANGED <<_instance, allocated, direct, constructed, server_registry,
                   _initialized, raise_on_critical>>
    /\ UNCHANGED transport_vars
    /\ UNCHANGED entity_vars

\* list_tools / list_resources / list_prompts of the registry
RegistryListKeys(k) ==
    /\ direct[k] # None
    /\ last' = Call("list_keys", None, k, Nothing, NoExc, [keys |-> ListKeys(registries[k])])
    /\ UNCHANGED server_vars
    /\ UNCHANGED transport_vars
    /\ UNCHANGED entity_vars

\* two threads that call register on the registries
Threads == {1, 2}

\* a thread that is in no register call
IdleThread ==
    [pc |-> "idle", kind |-> "tool", entity |-> Nothing, exc |-> NoExc, preempted |-> FALSE]

RegisterInsertKeepsFirst(reg, e) ==
    IF Contains(reg, e.key) THEN reg ELSE Append(reg, e)

\* self._tools[tool_name] = tool: the value of a key the dict holds is
\* replaced where it is, a new key goes to the end
RegisterInsert(reg, e) ==
    IF Contains(reg, e.key)
    THEN [i \in 1..Len(reg) |-> IF reg[i].key = e.key THEN e ELSE reg[i]]
    ELSE Append(reg, e)

\* thread t has run a statement: a thread that is between its check and its
\* assignment has been preempted
Preempt(t, th) ==
    [u \in Threads |->
        IF u # t /\ th[u].pc = "insert" THEN [th[u] EXCEPT !.preempted = TRUE] ELSE th[u]]

\* thread t enters register(e) and evaluates the duplicate check: it raises
\* ResourceAlreadyExistsError, or it goes on to the assignment
thread_register_check(t, k, e) ==
    /\ threads[t].pc = "idle"
    /\ direct[k] # None
    /\ threads' = Preempt(t, [threads EXCEPT ![t] =
            IF Contains(registries[k], e.key)
            THEN [pc |-> "done", kind |-> k, entity |-> e,
                  exc |-> ResourceAlreadyExistsError, preempted |-> FALSE]
            ELSE [pc |-> "insert", kind |-> k, entity |-> e, exc |-> NoExc,
                  preempted |-> FALSE]])
    /\ last' = Call("register_check", t, k, e,
                    IF Contains(registries[k], e.key) THEN ResourceAlreadyExistsError ELSE NoExc,
                    Nothing)
    /\ UNCHANGED server_vars
    /\ UNCHANGED transport_vars
    /\ UNCHANGED <<read_count, pool, _request_id, stdin, stdout, waiting>>

\* thread t executes the assignment of its register call and returns
thread_register_insert(t) ==
    /\ threads[t].pc = "insert"
    /\ registries' = [registries EXCEPT
            ![threads[t].kind] = RegisterInsert(registries[threads[t].kind], threads[t].entity)]
    /\ threads' = Preempt(t, [threads EXCEPT ![t].pc = "done"])
    /\ last' = Call("register_insert", t, threads[t].kind, threads[t].entity, NoExc, Nothing)
    /\ UNCHANGED <<_instance, allocated, direct, constructed, server_registry,
                   _initialized, raise_on_critical>>
    /\ UNCHANGED transport_vars
    /\ UNCHANGED <<read_count, pool, _request_id, stdin, stdout, waiting>>

----------------------------------------------------------------------------
(* ErrorHandler *)

\* ErrorHandler.handle_error: TRUE when the handled error is raised again
HandleErrorRaises(error, reraise) ==
    reraise \/ (error \in BaseApplicationError /\ raise_on_critical)

----------------------------------------------------------------------------
(* Tools: ToolSchema, BaseTool.execute, CalculatorTool, EchoTool *)

\* JSON values given as tool parameters
Str(x) == [type |-> "string", s |-> x, n |-> 0]
Num(x) == [type |-> "number", s |-> "", n |-> x]

ParamValues ==
    {Str(x) : x \in {"add", "subtract", "multiply", "divide", "power"}}
        \cup {Num(x) : x \in 0..MaxOperand}

Tools == KeysOf("tool")

\* input_schema of _define_schema: the required fields and the declared types
InputSchema(tool) ==
    IF tool = "calculator"
    THEN [required |-> {"operation", "a", "b"},
          properties |-> [operation |-> "string", a |-> "number", b |-> "number"]]
    ELSE [required |-> {"message"},
          properties |-> [message |-> "string"]]

\* params: a mapping from field names to values, or a value that is no mapping (None)
Mapping(fields) == [mapping |-> TRUE, fields |-> fields]
NotAMapping == [mapping |-> FALSE, fields |-> [f \in {} |-> Num(0)]]

\* the parameters a tool is called with: any subset of its fields, any values
ParamsOf(tool) ==
    {Mapping(f) : f \in UNION {[D -> ParamValues] : D \in SUBSET InputSchema(tool).required}}
        \cup {NotAMapping}

\* decoded JSON values of the other runtime types: a float, a bool, a dict,
\* a list, None (Num is an int)
Float == [type |-> "float", s |-> "", n |-> 0]
Bool == [type |-> "boolean", s |-> "", n |-> 1]
Dict == [type |-> "object", s |-> "", n |-> 0]
List == [type |-> "array", s |-> "", n |-> 0]
Null == [type |-> "null", s |-> "", n |-> 0]

\* isinstance(value, python_type); bool is a subclass of int
IsInstance(value, python_type) ==
    CASE python_type = "str" -> value.type = "string"
      [] python_type = "int" -> value.type \in {"number", "boolean"}
      [] python_type = "float" -> value.type = "float"
      [] python_type = "bool" -> value.type = "boolean"
      [] python_type = "dict" -> value.type = "object"
      [] python_type = "list" -> value.type = "array"

\* ToolSchema._check_type: type_mapping, True for a tag it does not hold
CheckType(value, expected_type) ==
    CASE expected_type = "string" -> IsInstance(value, "str")
      [] expected_type = "number" -> IsInstance(value, "int") \/ IsInstance(value, "float")
      [] expected_type = "integer" -> IsInstance(value, "int")
      [] expected_type = "boolean" -> IsInstance(value, "bool")
      [] expected_type = "object" -> IsInstance(value, "dict")
      [] expected_type = "array" -> IsInstance(value, "list")
      [] OTHER -> TRUE

ValidateInputTypesOnly(schema, fields) ==
    \A field \in DOMAIN fields :
        field \in DOMAIN schema.properties
            => CheckType(fields[field], schema.properties[field])

\* ToolSchema.validate_input on a mapping: required fields, then types
ValidateInput(schema, fields) ==
    /\ \A field \in schema.required : field \in DOMAIN fields
    /\ \A field \in DOMAIN fields :
            field \in DOMAIN schema.properties
                => CheckType(fields[field], schema.properties[field])

TypeError == "TypeError"

\* the type tags of type_mapping, a tag it does not hold, and no tag at all
TypeTags == {"string", "number", "integer", "boolean", "object", "array", "date", ""}

\* input schemas over the fields f and g: any of them required, f declared
\* with any tag or not declared, g never declared
Schemas ==
    {[required |-> r, properties |-> pr] :
        r \in SUBSET {"f", "g"},
        pr \in {[x \in {} |-> ""]} \cup [{"f"} -> TypeTags]}

JsonValues == {Str("x"), Num(1), Float, Bool, Dict, List, Null}

\* the values validate_input is called with: every mapping over f and g, None
SchemaParams ==
    {Mapping(f) : f \in UNION {[D -> JsonValues] : D \in SUBSET {"f", "g"}}}
        \cup {NotAMapping}

\* ToolSchema.validate_input(params): for None, field not in params raises
\* TypeError, and with nothing required params.items() raises AttributeError
ValidateInputCall(schema, params) ==
    IF params.mapping
    THEN [ret |-> [valid |-> ValidateInput(schema, params.fields)], exc |-> NoExc]
    ELSE IF schema.required # {}
    THEN [ret |-> Nothing, exc |-> TypeError]
    ELSE [ret |-> Nothing, exc |-> AttributeError]

\* schema.validate_input(params) called on a ToolSchema
validate_input(schema, params) ==
    /\ LET r == ValidateInputCall(schema, params) IN
        last' = Call("validate_input", None, "tool",
                     [schema |-> schema, params |-> params], r.exc, r.ret)
    /\ UNCHANGED server_vars
    /\ UNCHANGED transport_vars
    /\ UNCHANGED entity_vars

\* CalculatorTool._execute_impl; the quotient a / b is kept as the pair n, d
CalculatorImpl(fields) ==
    IF ~({"operation", "a", "b"} \subseteq DOMAIN fields)
    THEN [result |-> Nothing, exc |-> OtherException]
    ELSE LET operation == fields["operation"]
             a == fields["a"]
             b == fields["b"]
         IN  IF a.type # "number" \/ b.type # "number"
             THEN [result |-> Nothing, exc |-> OtherException]
             ELSE IF operation = Str("add")
             THEN [result |-> [result |-> [n |-> a.n + b.n, d |-> 1]], exc |-> NoExc]
             ELSE IF operation = Str("subtract")
             THEN [result |-> [result |-> [n |-> a.n - b.n, d |-> 1]], exc |-> NoExc]
             ELSE IF operation = Str("multiply")
             THEN [result |-> [result |-> [n |-> a.n * b.n, d |-> 1]], exc |-> NoExc]
             ELSE IF operation = Str("divide")
             THEN IF b.n = 0
                  THEN [result |-> Nothing, exc |-> ValidationError]
                  ELSE [result |-> [result |-> [n |-> a.n, d |-> b.n]], exc |-> NoExc]
             ELSE [result |-> Nothing, exc |-> ValidationError]

\* EchoTool._execute_impl
EchoImpl(fields) ==
    IF "message" \notin DOMAIN fields
    THEN [result |-> Nothing, exc |-> OtherException]
    ELSE [result |-> [echo |-> fields["message"]], exc |-> NoExc]

ExecuteImpl(tool, fields) ==
    IF tool = "calculator" THEN CalculatorImpl(fields) ELSE EchoImpl(fields)

\* the except clause of BaseTool.execute
ExecuteExcept(e, impl) ==
    IF HandleErrorRaises(e, FALSE)
    THEN [ret |-> Nothing, exc |-> e, impl |-> impl]
    ELSE [ret |-> [success |-> FALSE, error |-> <<e>>], exc |-> NoExc, impl |-> impl]

\* BaseTool.execute: validate_input, then _execute_impl, every exception
\* handed to handle_error; impl tells whether _execute_impl was called
Execute(tool, params) ==
    IF ~params.mapping
    THEN ExecuteExcept(OtherException, FALSE)
    ELSE IF ~ValidateInput(InputSchema(tool), params.fields)
    THEN [ret |-> [success |-> FALSE, error |-> <<"Invalid parameters for tool ", tool>>],
          exc |-> NoExc, impl |-> FALSE]
    ELSE LET r == ExecuteImpl(tool, params.fields) IN
         IF r.exc = NoExc
         THEN [ret |-> [success |-> TRUE, result |-> r.result], exc |-> NoExc, impl |-> TRUE]
         ELSE ExecuteExcept(r.exc, TRUE)

\* tool.execute(params) called on a tool object
execute(tool, params) ==
    /\ LET r == Execute(tool, params) IN
        /\ last' = Call("execute", None, "tool", [tool |-> tool, params |-> params], r.exc, r.ret)
        /\ invoked' = IF r.impl THEN "_execute_impl" ELSE "none"
    /\ UNCHANGED server_vars
    /\ UNCHANGED entity_vars
    /\ UNCHANGED <<_is_running, pc, message, response, received, sent>>

----------------------------------------------------------------------------
(* Parallel tools: BatchProcessorTool (multiprocessing.Pool.map) and        *)
(* ConcurrentFetcherTool (ThreadPoolExecutor.map)                           *)

ParallelTools == {"batch_processor", "concurrent_fetcher"}

\* multiprocessing.cpu_count() of the machine
CpuCount == 2

\* no pool: no call of a parallel tool is under way
IdlePool ==
    [tool |-> "none", items |-> <<>>, workers |-> 0, pending |-> {}, running |-> {},
     results |-> <<>>, completed |-> <<>>]

\* the optional parameter workers / max_threads: absent or an integer
Workers(given, n) == [given |-> given, n |-> n]

WorkerParams == {Workers(FALSE, 0)} \cup {Workers(TRUE, n) : n \in 0..(MaxWorkers + 1)}

Min(a, b) == IF a <= b THEN a ELSE b
Max(a, b) == IF a >= b THEN a ELSE b

\* the items a tool is given: numbers for the batch processor, strings for
\* the fetcher
ItemValues(tool) ==
    IF tool = "batch_processor"
    THEN {Num(x) : x \in 0..MaxOperand}
    ELSE {Str(x) : x \in {"a", "b"}}

Upper(x) == IF x = "a" THEN "A" ELSE "B"

\* _compute_intensive_operation(number) / _simulate_io_operation(item)
Operation(tool, item) ==
    IF tool = "batch_processor"
    THEN [squared |-> item.n * item.n, loop |-> 1000]
    ELSE [original |-> item.s, length |-> 1, uppercase |-> Upper(item.s)]

\* workers = max(1, min(workers, cpu_count() * 2)), default cpu_count();
\* threads_used = min(max(1, min(max_threads, 50)), len(items)), default 10
WorkersUsed(tool, workers, items) ==
    IF tool = "batch_processor"
    THEN Max(1, Min(IF workers.given THEN workers.n ELSE CpuCount, CpuCount * 2))
    ELSE Min(Max(1, Min(IF workers.given THEN workers.n ELSE 10, 50)), Len(items))

GatherInCompletionOrder(p, i, value) ==
    [p.results EXCEPT ![Len(p.completed) + 1] = value]

\* map's gather: the result of task i is stored at index i
Gather(p, i, value) == [p.results EXCEPT ![i] = value]

\* the dictionary _execute_impl returns
ParallelResult(tool, results, used) ==
    IF tool = "batch_processor"
    THEN [results |-> results, count |-> Len(results), workers_used |-> used]
    ELSE [results |-> results, count |-> Len(results), threads_used |-> used]

ParallelCall(tool, items, workers, completed, exc, ret) ==
    Call("_execute_impl", None, "tool",
         [tool |-> tool, items |-> items, workers |-> workers, completed |-> completed],
         exc, ret)

\* _execute_impl called with items that are no list: ValidationError
execute_impl_not_a_list(tool) ==
    /\ pool.tool = "none"
    /\ last' = Call("_execute_impl", None, "tool",
                    [tool |-> tool, items |-> <<>>, workers |-> Workers(FALSE, 0),
                     completed |-> <<>>, items_type |-> "str"],
                    ValidationError, Nothing)
    /\ UNCHANGED <<pool, read_count, _request_id>>
    /\ UNCHANGED session_vars
    /\ UNCHANGED server_vars
    /\ UNCHANGED transport_vars

\* _execute_impl up to the map call: an empty list returns at once,
\* otherwise the pool is created and every item becomes a task
execute_impl(tool, items, workers) ==
    /\ pool.tool = "none"
    /\ IF items = <<>>
       THEN /\ last' = ParallelCall(tool, items, workers, <<>>, NoExc,
                                    ParallelResult(tool, <<>>, 0))
            /\ UNCHANGED pool
       ELSE /\ pool' = [tool |-> tool, items |-> items,
                        workers |-> WorkersUsed(tool, workers, items),
                        pending |-> 1..Len(items), running |-> {},
                        results |-> [i \in 1..Len(items) |-> Nothing],
                        completed |-> <<>>]
            /\ last' = Call("map", None, "tool",
                            [tool |-> tool, items |-> items, workers |-> workers,
                             completed |-> <<>>],
                            NoExc, Nothing)
    /\ UNCHANGED <<read_count, _request_id>>
    /\ UNCHANGED session_vars
    /\ UNCHANGED server_vars
    /\ UNCHANGED transport_vars

\* a free worker takes the next task of the queue
worker_take ==
    /\ pool.tool # "none"
    /\ pool.pending # {}
    /\ Cardinality(pool.running) < pool.workers
    /\ LET i == CHOOSE i \in pool.pending : \A j \in pool.pending : i <= j IN
        pool' = [pool EXCEPT !.pending = @ \ {i}, !.running = @ \cup {i}]
    /\ UNCHANGED <<last, read_count, _request_id>>
    /\ UNCHANGED session_vars
    /\ UNCHANGED server_vars
    /\ UNCHANGED transport_vars

\* a worker finishes task i, whichever of the running tasks that is
worker_complete(i) ==
    /\ pool.tool # "none"
    /\ i \in pool.running
    /\ pool' = [pool EXCEPT !.running = @ \ {i},
                            !.results = Gather(pool, i, Operation(pool.tool, pool.items[i])),
                            !.completed = Append(@, i)]
    /\ UNCHANGED <<last, read_count, _request_id>>
    /\ UNCHANGED session_vars
    /\ UNCHANGED server_vars
    /\ UNCHANGED transport_vars

\* map returns once every task is done; the pool is closed and
\* _execute_impl returns results, count and the workers used
map_return ==
    /\ pool.tool # "none"
    /\ pool.pending = {}
    /\ pool.running = {}
    /\ last' = ParallelCall(pool.tool, pool.items, last.arg.workers, pool.completed, NoExc,
                            ParallelResult(pool.tool, pool.results, pool.workers))
    /\ pool' = IdlePool
    /\ UNCHANGED <<read_count, _request_id>>
    /\ UNCHANGED session_vars
    /\ UNCHANGED server_vars
    /\ UNCHANGED transport_vars

----------------------------------------------------------------------------
(* Entity operations, by the class of argument they are called with *)

ToolParams == {"valid", "invalid", "domain_error", "unexpected_error"}
PromptArgs == {"complete", "missing_required"}

\* BaseTool.execute: schema validation, then _execute_impl, errors handled
BaseToolExecute(p) ==
    CASE p = "invalid" ->
            [ret |-> [success |-> FALSE, error |-> "Invalid parameters for tool"], exc |-> NoExc]
      [] p = "valid" ->
            [ret |-> [success |-> TRUE, result |-> "value"], exc |-> NoExc]
      [] p = "domain_error" ->
            IF HandleErrorRaises(ValidationError, FALSE)
            THEN [ret |-> Nothing, exc |-> ValidationError]
            ELSE [ret |-> [success |-> FALSE, error |-> ValidationError], exc |-> NoExc]
      [] p = "unexpected_error" ->
            IF HandleErrorRaises(OtherException, FALSE)
            THEN [ret |-> Nothing, exc |-> OtherException]
            ELSE [ret |-> [success |-> FALSE, error |-> OtherException], exc |-> NoExc]

\* the reads of every StatusResource object stay within the bound
WithinReads(reads) == \A i \in DOMAIN reads : reads[i] <= MaxReads

StatusReadCached(e) ==
    [ret |-> [uri |-> e.key, mimeType |-> "application/json",
              content |-> [status |-> "operational",
                           read_count |-> 1,
                           uptime_seconds |-> 10]],
     exc |-> NoExc,
     reads |-> [read_count EXCEPT ![e.id] = 1]]

\* StatusResource.read: the counter of the object goes up by one and is
\* part of the content; nothing in the try block raises
StatusRead(e) ==
    [ret |-> [uri |-> e.key, mimeType |-> "application/json",
              content |-> [status |-> "operational",
                           read_count |-> read_count[e.id] + 1,
                           uptime_seconds |-> (read_count[e.id] + 1) * 10]],
     exc |-> NoExc,
     reads |-> [read_count EXCEPT ![e.id] = @ + 1]]

\* ConfigResource.read: the configuration data, the same on every read
ConfigRead(e) ==
    [ret |-> [uri |-> e.key, mimeType |-> "application/json", content |-> [config |-> "get_all"]],
     exc |-> NoExc,
     reads |-> read_count]

\* resource.read() on the object e
ResourceRead(e) ==
    IF e.key = "status://system" THEN StatusRead(e) ELSE ConfigRead(e)

\* SummarizePrompt.get_messages / CodeReviewPrompt.get_messages:
\* validate_arguments raises ValidationError when a required argument is missing
PromptGetMessages(a) ==
    IF a = "missing_required"
    THEN [ret |-> Nothing, exc |-> ValidationError]
    ELSE [ret |-> [roles |-> <<"system", "user">>], exc |-> NoExc]

\* resource.read() called on a resource object
read(e) ==
    /\ LET r == ResourceRead(e) IN
        /\ WithinReads(r.reads)
        /\ read_count' = r.reads
        /\ last' = Call("read", None, "resource", e, r.exc, r.ret)
    /\ UNCHANGED <<pool, _request_id>>
    /\ UNCHANGED session_vars
    /\ UNCHANGED server_vars
    /\ UNCHANGED transport_vars

\* self.arguments of the built-in prompts: the required argument and the
\* optional ones
PromptArguments(prompt) ==
    IF prompt = "summarize"
    THEN [required |-> {"text"}, optional |-> {"length"}]
    ELSE [required |-> {"code"}, optional |-> {"language", "focus"}]

\* the arguments given to a prompt: None, or a mapping that holds some names
Arguments(given, names) == [given |-> given, names |-> names]

ArgumentsOf(prompt) ==
    {Arguments(FALSE, {})} \cup
    {Arguments(TRUE, n) :
        n \in SUBSET (PromptArguments(prompt).required \cup PromptArguments(prompt).optional)}

\* BasePrompt.validate_arguments: the exception it raises
ValidateArguments(prompt, arguments) ==
    IF \E arg_name \in PromptArguments(prompt).required : arg_name \notin arguments.names
    THEN ValidationError
    ELSE NoExc

GetMessagesCatches(prompt, arguments) ==
    IF ValidateArguments(prompt, arguments) # NoExc
    THEN [ret |-> [success |-> FALSE, error |-> <<ValidationError>>], exc |-> NoExc]
    ELSE [ret |-> [roles |-> <<"system", "user">>,
                   defaults |-> PromptArguments(prompt).optional \ arguments.names],
          exc |-> NoExc]

\* SummarizePrompt.get_messages / CodeReviewPrompt.get_messages:
\* validate_arguments first, outside any try block, then the two messages,
\* with the defaults of the optional arguments that were not given
GetMessages(prompt, arguments) ==
    IF ValidateArguments(prompt, arguments) # NoExc
    THEN [ret |-> Nothing, exc |-> ValidateArguments(prompt, arguments)]
    ELSE [ret |-> [roles |-> <<"system", "user">>,
                   defaults |-> PromptArguments(prompt).optional \ arguments.names],
          exc |-> NoExc]

\* prompt.get_messages(arguments) called on a prompt object
get_messages(prompt, arguments) ==
    /\ LET r == GetMessages(prompt, arguments) IN
        last' = Call("get_messages", None, "prompt",
                     [prompt |-> prompt, arguments |-> arguments], r.exc, r.ret)
    /\ UNCHANGED server_vars
    /\ UNCHANGED transport_vars
    /\ UNCHANGED entity_vars

----------------------------------------------------------------------------
(* MCPServer *)

NotInitialized == "Server not initialized"

\* for entity in entities: try: registry.register(entity)
\*                         except Exception as e: handle_error(e)
\* errors counts the registrations that failed and were handled (logged)
RECURSIVE RegisterEach(_, _, _)
RegisterEach(reg, entities, errors) ==
    IF entities = <<>>
    THEN [reg |-> reg, exc |-> NoExc, errors |-> errors]
    ELSE LET r == Register(reg, Head(entities)) IN
         IF r.exc = NoExc
         THEN RegisterEach(r.reg, Tail(entities), errors)
         ELSE IF HandleErrorRaises(r.exc, FALSE)
         THEN [reg |-> r.reg, exc |-> r.exc, errors |-> errors + 1]
         ELSE RegisterEach(r.reg, Tail(entities), errors + 1)

InitializeFlagIfNoErrors(regs, given) ==
    LET t == RegisterEach(regs["tool"], given.tool, 0)
        r == RegisterEach(regs["resource"], given.resource, t.errors)
        p == RegisterEach(regs["prompt"], given.prompt, r.errors)
    IN  IF t.exc # NoExc
        THEN [regs |-> [regs EXCEPT !["tool"] = t.reg], exc |-> t.exc,
              initialized |-> FALSE, errors |-> t.errors]
        ELSE IF r.exc # NoExc
        THEN [regs |-> [regs EXCEPT !["tool"] = t.reg, !["resource"] = r.reg],
              exc |-> r.exc, initialized |-> FALSE, errors |-> r.errors]
        ELSE IF p.exc # NoExc
        THEN [regs |-> [regs EXCEPT !["tool"] = t.reg, !["resource"] = r.reg, !["prompt"] = p.reg],
              exc |-> p.exc, initialized |-> FALSE, errors |-> p.errors]
        ELSE [regs |-> [regs EXCEPT !["tool"] = t.reg, !["resource"] = r.reg, !["prompt"] = p.reg],
              exc |-> NoExc, initialized |-> (p.errors = 0), errors |-> p.errors]

\* the body of initialize on a server that is not initialized: tools, then
\* resources, then prompts; an exception that handle_error raises again leaves
\* initialize at once; the flag is set when the three loops have finished
InitializeBody(regs, given) ==
    LET t == RegisterEach(regs["tool"], given.tool, 0)
        r == RegisterEach(regs["resource"], given.resource, t.errors)
        p == RegisterEach(regs["prompt"], given.prompt, r.errors)
    IN  IF t.exc # NoExc
        THEN [regs |-> [regs EXCEPT !["tool"] = t.reg], exc |-> t.exc,
              initialized |-> FALSE, errors |-> t.errors]
        ELSE IF r.exc # NoExc
        THEN [regs |-> [regs EXCEPT !["tool"] = t.reg, !["resource"] = r.reg],
              exc |-> r.exc, initialized |-> FALSE, errors |-> r.errors]
        ELSE IF p.exc # NoExc
        THEN [regs |-> [regs EXCEPT !["tool"] = t.reg, !["resource"] = r.reg, !["prompt"] = p.reg],
              exc |-> p.exc, initialized |-> FALSE, errors |-> p.errors]
        ELSE [regs |-> [regs EXCEPT !["tool"] = t.reg, !["resource"] = r.reg, !["prompt"] = p.reg],
              exc |-> NoExc, initialized |-> TRUE, errors |-> p.errors]

InitializeNoGuard(s, given) ==
    LET b == InitializeBody(registries, given) IN
    [regs |-> b.regs, initialized |-> b.initialized, exc |-> b.exc,
     ret |-> [status |-> IF b.exc = NoExc THEN "initialized" ELSE "raised", errors |-> b.errors]]

\* MCPServer.initialize: what it leaves and what it logs
Initialize(s, given) ==
    IF _initialized[s]
    THEN [regs |-> registries, initialized |-> TRUE, exc |-> NoExc,
          ret |-> [status |-> "already initialized", errors |-> 0]]
    ELSE LET b == InitializeBody(registries, given) IN
         [regs |-> b.regs, initialized |-> b.initialized, exc |-> b.exc,
          ret |-> [status |-> IF b.exc = NoExc THEN "initialized" ELSE "raised",
                   errors |-> b.errors]]

SeqsUpTo(S, n) == UNION {[1..m -> S] : m \in 0..n}

\* the tools, resources and prompts given to initialize (an absent list is
\* empty), n entities at most
InitializeInputs(n) ==
    {g \in [tool : SeqsUpTo(ServerEntities("tool"), n),
            resource : SeqsUpTo(ServerEntities("resource"), n),
            prompt : SeqsUpTo(ServerEntities("prompt"), n)] :
        Len(g.tool) + Len(g.resource) + Len(g.prompt) <= n}

Entity(key) == [key |-> key, id |-> 1]

\* server.initialize() with no entities, as the router calls it
NoEntities == [tool |-> <<>>, resource |-> <<>>, prompt |-> <<>>]

\* the entities run_server.py starts the server with
BuiltIns ==
    [tool |-> <<Entity("calculator"), Entity("echo")>>,
     resource |-> <<Entity("config://app"), Entity("status://system")>>,
     prompt |-> <<Entity("code_review"), Entity("summarize")>>]

StartupInputs == {NoEntities, BuiltIns}

\* MCPServer(): each registry class is called once
MCPServerInit(s) ==
    /\ ~constructed[s]
    /\ LET r == [k \in Kinds |-> RegistryNew(_instance[k], allocated[k])] IN
        /\ _instance' = [k \in Kinds |-> r[k].inst]
        /\ allocated' = [k \in Kinds |-> r[k].n]
        /\ server_registry' = [server_registry EXCEPT ![s] = [k \in Kinds |-> r[k].obj]]
    /\ constructed' = [constructed EXCEPT ![s] = TRUE]
    /\ _initialized' = [_initialized EXCEPT ![s] = FALSE]
    /\ last' = Call("MCPServer", s, "tool", Nothing, NoExc, Nothing)
    /\ UNCHANGED <<registries, direct, raise_on_critical>>
    /\ UNCHANGED transport_vars
    /\ UNCHANGED entity_vars

\* arg: the entities the call went through (none when it returned at once)
initialize(s, given) ==
    /\ constructed[s]
    /\ LET r == Initialize(s, given) IN
        /\ registries' = r.regs
        /\ _initialized' = [_initialized EXCEPT ![s] = r.initialized]
        /\ last' = Call("initialize", s, "tool",
                        IF _initialized[s] THEN NoEntities ELSE given, r.exc, r.ret)
    /\ UNCHANGED <<_instance, allocated, direct, constructed, server_registry, raise_on_critical>>
    /\ UNCHANGED transport_vars
    /\ UNCHANGED entity_vars

ServerRegisterNoCheck(s, k, e) == Register(registries[k], e)

\* register_tool / register_resource / register_prompt share this body
ServerRegister(s, k, e) ==
    IF ~_initialized[s]
    THEN [reg |-> registries[k], exc |-> ServiceError]
    ELSE Register(registries[k], e)

register_tool(s, e) ==
    /\ constructed[s]
    /\ LET r == ServerRegister(s, "tool", e) IN
        /\ registries' = [registries EXCEPT !["tool"] = r.reg]
        /\ last' = Call("register_tool", s, "tool", e, r.exc, Nothing)
    /\ UNCHANGED <<_instance, allocated, direct, constructed, server_registry,
                   _initialized, raise_on_critical>>
    /\ UNCHANGED transport_vars
    /\ UNCHANGED entity_vars

register_resource(s, e) ==
    /\ constructed[s]
    /\ LET r == ServerRegister(s, "resource", e) IN
        /\ registries' = [registries EXCEPT !["resource"] = r.reg]
        /\ last' = Call("register_resource", s, "resource", e, r.exc, Nothing)
    /\ UNCHANGED <<_instance, allocated, direct, constructed, server_registry,
                   _initialized, raise_on_critical>>
    /\ UNCHANGED transport_vars
    /\ UNCHANGED entity_vars

register_prompt(s, e) ==
    /\ constructed[s]
    /\ LET r == ServerRegister(s, "prompt", e) IN
        /\ registries' = [registries EXCEPT !["prompt"] = r.reg]
        /\ last' = Call("register_prompt", s, "prompt", e, r.exc, Nothing)
    /\ UNCHANGED <<_instance, allocated, direct, constructed, server_registry,
                   _initialized, raise_on_critical>>
    /\ UNCHANGED transport_vars
    /\ UNCHANGED entity_vars

\* what follows the initialized check of execute_tool
ExecuteToolBody(tool_name, params) ==
    LET g == Get(registries["tool"], tool_name)
        x == BaseToolExecute(params)
        e == IF g.exc # NoExc THEN g.exc ELSE x.exc
    IN  IF e = NoExc
        THEN [ret |-> x.ret, exc |-> NoExc]
        ELSE IF HandleErrorRaises(e, FALSE)
        THEN [ret |-> Nothing, exc |-> e]
        ELSE [ret |-> [success |-> FALSE, error |-> e], exc |-> NoExc]

ExecuteToolNoCheck(s, tool_name, params) == ExecuteToolBody(tool_name, params)

\* the value execute_tool returns, or the exception that leaves it
ExecuteTool(s, tool_name, params) ==
    IF ~_initialized[s]
    THEN [ret |-> [success |-> FALSE, error |-> NotInitialized], exc |-> NoExc]
    ELSE ExecuteToolBody(tool_name, params)

ReadResource(s, resource_uri) ==
    IF ~_initialized[s]
    THEN [ret |-> [error |-> NotInitialized], exc |-> NoExc, reads |-> read_count]
    ELSE LET g == Get(registries["resource"], resource_uri)
             x == ResourceRead(g.ret)
             e == IF g.exc # NoExc THEN g.exc ELSE x.exc
         IN  IF e = NoExc
             THEN [ret |-> x.ret, exc |-> NoExc, reads |-> x.reads]
             ELSE IF HandleErrorRaises(e, FALSE)
             THEN [ret |-> Nothing, exc |-> e, reads |-> read_count]
             ELSE [ret |-> [uri |-> resource_uri, error |-> e], exc |-> NoExc,
                   reads |-> read_count]

GetPromptMessages(s, prompt_name, arguments) ==
    IF ~_initialized[s]
    THEN [ret |-> [success |-> FALSE, error |-> NotInitialized], exc |-> NoExc]
    ELSE LET g == Get(registries["prompt"], prompt_name)
             x == PromptGetMessages(arguments)
             e == IF g.exc # NoExc THEN g.exc ELSE x.exc
         IN  IF e = NoExc
             THEN [ret |-> [success |-> TRUE, prompt |-> prompt_name, messages |-> x.ret.roles],
                   exc |-> NoExc]
             ELSE IF HandleErrorRaises(e, FALSE)
             THEN [ret |-> Nothing, exc |-> e]
             ELSE [ret |-> [success |-> FALSE, error |-> e], exc |-> NoExc]

execute_tool(s, tool_name, params) ==
    /\ constructed[s]
    /\ LET r == ExecuteTool(s, tool_name, params) IN
        last' = Call("execute_tool", s, "tool", [name |-> tool_name, params |-> params], r.exc, r.ret)
    /\ UNCHANGED <<_instance, allocated, registries, direct, constructed,
                   server_registry, _initialized, raise_on_critical>>
    /\ UNCHANGED transport_vars
    /\ UNCHANGED entity_vars

read_resource(s, resource_uri) ==
    /\ constructed[s]
    /\ LET r == ReadResource(s, resource_uri) IN
        /\ WithinReads(r.reads)
        /\ read_count' = r.reads
        /\ last' = Call("read_resource", s, "resource", [uri |-> resource_uri], r.exc, r.ret)
    /\ UNCHANGED <<pool, _request_id>>
    /\ UNCHANGED session_vars
    /\ UNCHANGED <<_instance, allocated, registries, direct, constructed,
                   server_registry, _initialized, raise_on_critical>>
    /\ UNCHANGED transport_vars

get_prompt_messages(s, prompt_name, arguments) ==
    /\ constructed[s]
    /\ LET r == GetPromptMessages(s, prompt_name, arguments) IN
        last' = Call("get_prompt_messages", s, "prompt",
                     [name |-> prompt_name, arguments |-> arguments], r.exc, r.ret)
    /\ UNCHANGED <<_instance, allocated, registries, direct, constructed,
                   server_registry, _initialized, raise_on_critical>>
    /\ UNCHANGED transport_vars
    /\ UNCHANGED entity_vars

Cleared(regs) == Size(regs["tool"]) + Size(regs["resource"]) + Size(regs["prompt"])

\* ToolRegistry.list_tools / list_resources / list_prompts, as the server's
\* list_* return them: the keys in insertion order (no initialized check)
ListEntities(s, k) == [names |-> ListKeys(registries[k])]

\* get_tools_metadata / get_resources_metadata / get_prompts_metadata:
\* [entity.to_dict() for entity in values]
EntitiesMetadata(s, k) ==
    [metadata |-> [i \in 1..Len(registries[k]) |-> [name |-> registries[k][i].key]]]

\* a server operation that reads the registry of one kind and changes nothing
ServerQuery(op, s, k, ret) ==
    /\ constructed[s]
    /\ last' = Call(op, s, k, Nothing, NoExc, ret)
    /\ UNCHANGED server_vars
    /\ UNCHANGED entity_vars
    /\ UNCHANGED transport_vars
    /\ UNCHANGED entity_vars

list_tools(s) == ServerQuery("list_tools", s, "tool", ListEntities(s, "tool"))

list_resources(s) == ServerQuery("list_resources", s, "resource", ListEntities(s, "resource"))

list_prompts(s) == ServerQuery("list_prompts", s, "prompt", ListEntities(s, "prompt"))

get_tools_metadata(s) ==
    ServerQuery("get_tools_metadata", s, "tool", EntitiesMetadata(s, "tool"))

get_resources_metadata(s) ==
    ServerQuery("get_resources_metadata", s, "resource", EntitiesMetadata(s, "resource"))

get_prompts_metadata(s) ==
    ServerQuery("get_prompts_metadata", s, "prompt", EntitiesMetadata(s, "prompt"))

ShutdownNoGuard(s) ==
    [regs |-> [k \in Kinds |-> Clear(registries[k])],
     initialized |-> FALSE,
     ret |-> [status |-> "shutdown", cleared |-> Cleared(registries)]]

ShutdownKeepsEntries(s) ==
    IF ~_initialized[s]
    THEN [regs |-> registries, initialized |-> FALSE,
          ret |-> [status |-> "nothing to shutdown", cleared |-> 0]]
    ELSE [regs |-> registries,
          initialized |-> FALSE,
          ret |-> [status |-> "shutdown", cleared |-> Cleared(registries)]]

ShutdownClearsBeforeCheck(s) ==
    IF ~_initialized[s]
    THEN [regs |-> [k \in Kinds |-> Clear(registries[k])], initialized |-> FALSE,
          ret |-> [status |-> "nothing to shutdown", cleared |-> 0]]
    ELSE [regs |-> [k \in Kinds |-> Clear(registries[k])],
          initialized |-> FALSE,
          ret |-> [status |-> "shutdown", cleared |-> Cleared(registries)]]

ShutdownToolsOnly(s) ==
    IF ~_initialized[s]
    THEN [regs |-> registries, initialized |-> FALSE,
          ret |-> [status |-> "nothing to shutdown", cleared |-> 0]]
    ELSE [regs |-> [registries EXCEPT !["tool"] = Clear(registries["tool"])],
          initialized |-> FALSE,
          ret |-> [status |-> "shutdown", cleared |-> Cleared(registries)]]

\* MCPServer.shutdown: what it leaves and what it logs
Shutdown(s) ==
    IF ~_initialized[s]
    THEN [regs |-> registries, initialized |-> FALSE,
          ret |-> [status |-> "nothing to shutdown", cleared |-> 0]]
    ELSE [regs |-> [k \in Kinds |-> Clear(registries[k])],
          initialized |-> FALSE,
          ret |-> [status |-> "shutdown", cleared |-> Cleared(registries)]]

shutdown(s) ==
    /\ constructed[s]
    /\ LET r == Shutdown(s) IN
        /\ registries' = r.regs
        /\ _initialized' = [_initialized EXCEPT ![s] = r.initialized]
        /\ last' = Call("shutdown", s, "tool", Nothing, NoExc, r.ret)
    /\ UNCHANGED <<_instance, allocated, direct, constructed, server_registry, raise_on_critical>>
    /\ UNCHANGED transport_vars
    /\ UNCHANGED entity_vars

get_info(s) ==
    /\ constructed[s]
    /\ last' = Call("get_info", s, "tool", Nothing, NoExc,
                    [initialized |-> _initialized[s],
                     tool_count |-> Size(registries["tool"]),
                     resource_count |-> Size(registries["resource"]),
                     prompt_count |-> Size(registries["prompt"])])
    /\ UNCHANGED <<_instance, allocated, registries, direct, constructed,
                   server_registry, _initialized, raise_on_critical>>
    /\ UNCHANGED transport_vars
    /\ UNCHANGED entity_vars

----------------------------------------------------------------------------
(* Specifications *)

InitCommon ==
    /\ _instance = [k \in Kinds |-> None]
    /\ allocated = [k \in Kinds |-> 0]
    /\ registries = [k \in Kinds |-> <<>>]
    /\ direct = [k \in Kinds |-> None]
    /\ constructed = [s \in Servers |-> FALSE]
    /\ server_registry = [s \in Servers |-> [k \in Kinds |-> None]]
    /\ _initialized = [s \in Servers |-> FALSE]
    /\ last = Call("start", None, "tool", Nothing, NoExc, Nothing)
    /\ _is_running = FALSE
    /\ pc = "constructed"
    /\ message = Nothing
    /\ response = Nothing
    /\ invoked = "none"
    /\ received = <<>>
    /\ sent = 0
    /\ read_count = [i \in 1..MaxIds |-> 0]
    /\ pool = IdlePool
    /\ _request_id = 0
    /\ threads = [t \in Threads |-> IdleThread]
    /\ stdin = <<>>
    /\ stdout = <<>>
    /\ waiting = 0

\* the configuration is read from the YAML files; raise_on_critical is what they set
Init == InitCommon /\ raise_on_critical \in BOOLEAN

\* the registries on their own: the configuration is not read
InitRegistry == InitCommon /\ raise_on_critical = FALSE

\* registry classes called directly
NextRegistry ==
    \/ \E k \in Kinds : RegistryConstruct(k)
    \/ \E k \in Kinds : \E e \in Entities(k) : RegistryRegister(k, e)
    \/ \E k \in Kinds : \E key \in KeysOf(k) : RegistryUnregister(k, key)
    \/ \E k \in Kinds : \E key \in KeysOf(k) : RegistryGet(k, key)
    \/ \E k \in Kinds : RegistryClear(k)

SpecRegistry == InitRegistry /\ [][NextRegistry]_vars

\* the built-in entities and one more entity per kind
ListingEntities(k) == ServerEntities(k) \cup {[key |-> "custom", id |-> 1]}

\* a registry of each kind changed and listed
NextListing ==
    \/ \E k \in Kinds : RegistryConstruct(k)
    \/ \E k \in Kinds : \E e \in ListingEntities(k) : RegistryRegister(k, e)
    \/ \E k \in Kinds : \E e \in ListingEntities(k) : RegistryUnregister(k, e.key)
    \/ \E k \in Kinds : RegistryClear(k)
    \/ \E k \in Kinds : RegistryListKeys(k)

SpecListing == InitRegistry /\ [][NextListing]_vars

\* two threads, each calling register once on a registry
NextRace ==
    \/ \E k \in Kinds : RegistryConstruct(k)
    \/ \E t \in Threads : \E k \in Kinds : \E e \in Entities(k) : thread_register_check(t, k, e)
    \/ \E t \in Threads : thread_register_insert(t)

SpecRace == InitRegistry /\ [][NextRace]_vars

\* the lifecycle of two servers
NextServer ==
    \/ \E s \in Servers : MCPServerInit(s)
    \/ \E s \in Servers : \E given \in InitializeInputs(MaxInit) : initialize(s, given)
    \/ \E s \in Servers : \E e \in ServerEntities("tool") : register_tool(s, e)
    \/ \E s \in Servers : \E e \in ServerEntities("resource") : register_resource(s, e)
    \/ \E s \in Servers : \E e \in ServerEntities("prompt") : register_prompt(s, e)
    \/ \E s \in Servers : shutdown(s)
    \/ \E s \in Servers : get_info(s)

SpecServer == Init /\ [][NextServer]_vars

\* two servers initialized with lists that can repeat a key
NextInitialize ==
    \/ \E s \in Servers : MCPServerInit(s)
    \/ \E s \in Servers : \E given \in InitializeInputs(MaxInit + 1) : initialize(s, given)
    \/ \E s \in Servers : shutdown(s)

SpecInitialize == Init /\ [][NextInitialize]_vars

\* the operations of two servers started as run_server.py or the router starts them
NextOps ==
    \/ \E s \in Servers : MCPServerInit(s)
    \/ \E s \in Servers : \E given \in StartupInputs : initialize(s, given)
    \/ \E s \in Servers : \E e \in ServerEntities("tool") : register_tool(s, e)
    \/ \E s \in Servers : \E n \in KeysOf("tool") : \E p \in ToolParams : execute_tool(s, n, p)
    \/ \E s \in Servers : \E u \in KeysOf("resource") : read_resource(s, u)
    \/ \E s \in Servers : \E n \in KeysOf("prompt") : \E a \in PromptArgs : get_prompt_messages(s, n, a)
    \/ \E s \in Servers : shutdown(s)
    \/ \E s \in Servers : get_info(s)

SpecOps == Init /\ [][NextOps]_vars

\* registry classes called directly next to two servers
NextShared ==
    \/ \E s \in Servers : MCPServerInit(s)
    \/ \E k \in Kinds : RegistryConstruct(k)
    \/ \E k \in Kinds : \E e \in ServerEntities(k) : RegistryRegister(k, e)
    \/ \E k \in Kinds : \E key \in KeysOf(k) : RegistryUnregister(k, key)
    \/ \E k \in Kinds : RegistryClear(k)
    \/ \E s \in Servers : \E given \in StartupInputs : initialize(s, given)
    \/ \E s \in Servers : shutdown(s)
    \/ \E s \in Servers : get_info(s)

SpecShared == Init /\ [][NextShared]_vars

----------------------------------------------------------------------------
(* Message router: TransportHandler, MessageHandlers *)

\* a key that a JSON object does not hold, the JSON value null, Python's None
Absent == "<absent>"
JsonNull == "null"
PyNone == "None"

\* dict.get(key): None when the key is absent or holds null
DictGet(v) == IF v \in {Absent, JsonNull} THEN PyNone ELSE v

\* not v, for a string or None
Falsy(v) == v \in {PyNone, ""}

Methods ==
    {"server.info", "server.initialize", "tool.execute", "tool.list",
     "resource.read", "resource.list", "prompt.get_messages", "prompt.list"}

\* params of a request: absent, a mapping with some of the fields name, uri,
\* parameters and arguments, or a JSON value that is no mapping
Params(kind, name, uri, parameters, arguments) ==
    [kind |-> kind, name |-> name, uri |-> uri,
     parameters |-> parameters, arguments |-> arguments]

AbsentParams == Params("absent", Absent, Absent, Absent, Absent)
EmptyParams == Params("mapping", Absent, Absent, Absent, Absent)
NotAMappingParams == Params("not_a_mapping", Absent, Absent, Absent, Absent)

ParamsFor(method) ==
    {AbsentParams, EmptyParams, NotAMappingParams} \cup
    CASE method = "tool.execute" ->
            {Params("mapping", n, Absent, p, Absent) :
                n \in {"", "calculator", "unknown"}, p \in {Absent, "valid", "domain_error"}}
      [] method = "resource.read" ->
            {Params("mapping", Absent, u, Absent, Absent) :
                u \in {"config://app", "status://system", "unknown"}}
      [] method = "prompt.get_messages" ->
            {Params("mapping", n, Absent, Absent, a) :
                n \in {"summarize", "unknown"}, a \in {Absent, "complete"}}
      [] OTHER -> {}

\* a decoded line: a JSON object with some of method, params and id
Request(method, params, id) ==
    [object |-> TRUE, method |-> method, params |-> params, id |-> id, error |-> Absent]

\* a decoded line that is no JSON object (an array, a number, a string)
NonObject == [object |-> FALSE, method |-> Absent, params |-> AbsentParams, id |-> Absent,
              error |-> Absent]

IdValues == {Absent, JsonNull, "req-1"}

Requests ==
    {Request(m, p, i) : m \in Methods \cup {"bogus.thing", Absent}, p \in {AbsentParams}, i \in IdValues}
        \cup UNION {{Request(m, p, i) : p \in ParamsFor(m), i \in IdValues} : m \in Methods}

\* parameters default to {} and arguments to {}: every built-in tool and
\* prompt has a required field, so the empty mapping is invalid for them
ParametersOrDefault(p) == IF DictGet(p) = PyNone THEN "invalid" ELSE p
ArgumentsOrDefault(a) == IF DictGet(a) = PyNone THEN "missing_required" ELSE a

\* MCPServer.get_info
GetInfo(s) ==
    [initialized |-> _initialized[s],
     tool_count |-> Size(registries["tool"]),
     resource_count |-> Size(registries["resource"]),
     prompt_count |-> Size(registries["prompt"])]

\* what a handler of MessageHandlers leaves: its result or its exception
\* (text is str(exception)), the server operation it called, the registries
\* and the flag of the server afterwards
Handled(result, exc, text, op, regs, initialized, reads) ==
    [result |-> result, exc |-> exc, text |-> text, invoked |-> op,
     regs |-> regs, initialized |-> initialized, reads |-> reads]

\* a handler that called the server operation op, which changes nothing
Queried(s, op, r) ==
    Handled(r.ret, r.exc, <<r.exc>>, op, registries, _initialized[s], read_count)

\* the handler of resource.read once read_resource is done
Read(s, r) ==
    Handled(r.ret, r.exc, <<r.exc>>, "read_resource", registries, _initialized[s], r.reads)

\* a handler that raised before it called the server
Raised(s, exc, text) ==
    Handled(Nothing, exc, text, "none", registries, _initialized[s], read_count)

NoAttributeGet == <<"object has no attribute 'get'">>

handle_tool_execute(s, params) ==
    IF params.kind = "not_a_mapping"
    THEN Raised(s, AttributeError, NoAttributeGet)
    ELSE IF Falsy(DictGet(params.name))
    THEN Raised(s, ValueError, <<"Tool name is required">>)
    ELSE Queried(s, "execute_tool",
                 ExecuteTool(s, DictGet(params.name), ParametersOrDefault(params.parameters)))

handle_resource_read(s, params) ==
    IF params.kind = "not_a_mapping"
    THEN Raised(s, AttributeError, NoAttributeGet)
    ELSE IF Falsy(DictGet(params.uri))
    THEN Raised(s, ValueError, <<"Resource URI is required">>)
    ELSE Read(s, ReadResource(s, DictGet(params.uri)))

handle_prompt_get_messages(s, params) ==
    IF params.kind = "not_a_mapping"
    THEN Raised(s, AttributeError, NoAttributeGet)
    ELSE IF Falsy(DictGet(params.name))
    THEN Raised(s, ValueError, <<"Prompt name is required">>)
    ELSE Queried(s, "get_prompt_messages",
                 GetPromptMessages(s, DictGet(params.name), ArgumentsOrDefault(params.arguments)))

handle_server_initializeWithBuiltIns(s, params) ==
    LET r == Initialize(s, BuiltIns) IN
    Handled([status |-> "initialized"], r.exc, <<r.exc>>, "initialize", r.regs, r.initialized,
            read_count)

\* server.initialize() with no entities, whatever params is
handle_server_initialize(s, params) ==
    LET r == Initialize(s, NoEntities) IN
    Handled([status |-> "initialized"], r.exc, <<r.exc>>, "initialize", r.regs, r.initialized,
            read_count)

\* the if / elif chain of handle_message, for a method of the table
Route(s, method, params) ==
    CASE method = "server.info" ->
            Queried(s, "get_info", [ret |-> GetInfo(s), exc |-> NoExc])
      [] method = "server.initialize" -> handle_server_initialize(s, params)
      [] method = "tool.execute" -> handle_tool_execute(s, params)
      [] method = "tool.list" ->
            Queried(s, "list_tools", [ret |-> [tools |-> ListKeys(registries["tool"])], exc |-> NoExc])
      [] method = "resource.read" -> handle_resource_read(s, params)
      [] method = "resource.list" ->
            Queried(s, "list_resources",
                    [ret |-> [resources |-> ListKeys(registries["resource"])], exc |-> NoExc])
      [] method = "prompt.get_messages" -> handle_prompt_get_messages(s, params)
      [] method = "prompt.list" ->
            Queried(s, "list_prompts",
                    [ret |-> [prompts |-> ListKeys(registries["prompt"])], exc |-> NoExc])

WithIdAlways(resp, request_id) == resp @@ [id |-> request_id]

\* if request_id is not None: response["id"] = request_id
WithId(resp, request_id) ==
    IF request_id # PyNone THEN resp @@ [id |-> request_id] ELSE resp

\* TransportHandler._success_response
SuccessResponse(result, request_id) ==
    WithId([success |-> TRUE, result |-> result], request_id)

\* TransportHandler._error_response
ErrorResponse(text, code, request_id) ==
    WithId([success |-> FALSE, error |-> [code |-> code, message |-> text]], request_id)

\* what handle_message leaves: the response it returns or the exception that
\* leaves it, and the server afterwards
Answer(ret, exc, op, regs, initialized, reads) ==
    [ret |-> ret, exc |-> exc, invoked |-> op, regs |-> regs, initialized |-> initialized,
     reads |-> reads]

\* the except clause of handle_message: handle_error, then the error response
HandleMessageExcept(msg, h) ==
    IF HandleErrorRaises(h.exc, FALSE)
    THEN Answer(Nothing, h.exc, h.invoked, h.regs, h.initialized, h.reads)
    ELSE Answer(ErrorResponse(h.text, "internal_error", DictGet(msg.id)),
                NoExc, h.invoked, h.regs, h.initialized, h.reads)

HandleMessageRoutesUnknown(s, msg) ==
    LET h == Route(s, IF msg.method \in Methods THEN msg.method ELSE "server.initialize",
                   msg.params)
    IN  Answer(SuccessResponse(h.result, DictGet(msg.id)), NoExc, h.invoked, h.regs, h.initialized,
               h.reads)

\* the end of handle_message once the handler h of a table method is done:
\* the success response, or the except clause
Respond(msg, h) ==
    IF h.exc = NoExc
    THEN Answer(SuccessResponse(h.result, DictGet(msg.id)), NoExc,
                h.invoked, h.regs, h.initialized, h.reads)
    ELSE HandleMessageExcept(msg, h)

\* TransportHandler.handle_message for the handler of server s. A message
\* that is no mapping has no get: the AttributeError is raised in the try
\* block and again by message.get("id") in the except clause
HandleMessage(s, msg) ==
    IF ~msg.object
    THEN Answer(Nothing, AttributeError, "none", registries, _initialized[s], read_count)
    ELSE IF DictGet(msg.method) \notin Methods
    THEN Answer(ErrorResponse(<<"Unknown method: ", DictGet(msg.method)>>,
                              "method_not_found", DictGet(msg.id)),
                NoExc, "none", registries, _initialized[s], read_count)
    ELSE Respond(msg, Route(s, DictGet(msg.method), msg.params))

\* the server as the answer r of handle_message leaves it
ServerAfter(s, r) ==
    /\ WithinReads(r.reads)
    /\ read_count' = r.reads
    /\ UNCHANGED <<pool, _request_id>>
    /\ UNCHANGED session_vars
    /\ registries' = r.regs
    /\ _initialized' = [_initialized EXCEPT ![s] = r.initialized]
    /\ invoked' = r.invoked
    /\ UNCHANGED <<_instance, allocated, direct, constructed, server_registry, raise_on_critical>>

HandleMessageCall(s, msg, r) ==
    /\ ServerAfter(s, r)
    /\ last' = Call("handle_message", s, "tool", msg, r.exc, r.ret)

\* handler.handle_message(message) called on the handler of server s
handle_message(s, msg) ==
    /\ constructed[s]
    /\ HandleMessageCall(s, msg, HandleMessage(s, msg))
    /\ UNCHANGED <<_is_running, pc, message, response, received, sent>>

----------------------------------------------------------------------------
(* Client: MCPClient._send_request *)

JsonTrue == "true"
JsonFalse == "false"
JsonString == "\"yes\""

\* the value of the error key: absent, a dict with or without message, a string
ErrorValue(type, text) == [type |-> type, message |-> text]

ErrorValues ==
    {ErrorValue("absent", Absent), ErrorValue("dict", "boom"), ErrorValue("dict", Absent),
     ErrorValue("str", "parse_error")}

\* what transport.receive_message returns to the client: None, a decoded
\* JSON object with some of the keys success, error, result and id, or a
\* decoded JSON array that is not empty
Response(kind, success, error, result, id) ==
    [kind |-> kind, success |-> success, error |-> error, result |-> result, id |-> id]

NoResponse == Response("none", Absent, ErrorValue("absent", Absent), Absent, Absent)
ArrayResponse == Response("array", Absent, ErrorValue("absent", Absent), Absent, Absent)

Responses ==
    {NoResponse, ArrayResponse} \cup
    {Response("object", s, e, r, i) :
        s \in {Absent, JsonTrue, JsonFalse, JsonNull, JsonString},
        e \in ErrorValues, r \in {Absent, "value"}, i \in {Absent, "req-1"}}

\* not response: None and the empty object
NotResponse(resp) ==
    \/ resp.kind = "none"
    \/ /\ resp.kind = "object"
       /\ resp.success = Absent /\ resp.error.type = "absent"
       /\ resp.result = Absent /\ resp.id = Absent

\* bool(response.get("success", False))
Truthy(success) == success \in {JsonTrue, JsonString}

\* error.get("message", "Unknown error") if isinstance(error, dict) else str(error)
ErrorMsg(error) ==
    IF error.type = "str" THEN error.message
    ELSE IF error.message = Absent THEN "Unknown error"
    ELSE error.message

SendRequestReturnsError(resp) ==
    IF NotResponse(resp)
    THEN [ret |-> [message |-> <<"No response received from server">>], exc |-> OtherException]
    ELSE IF resp.kind = "array"
    THEN [ret |-> [message |-> <<"'list' object has no attribute 'get'">>],
          exc |-> AttributeError]
    ELSE IF ~Truthy(resp.success)
    THEN [ret |-> [result |-> ErrorMsg(resp.error)], exc |-> NoExc]
    ELSE [ret |-> [result |-> IF resp.result = Absent THEN "{}" ELSE resp.result],
          exc |-> NoExc]

\* _send_request once the response is received; what is raised is kept as
\* the exception and its message
SendRequest(resp) ==
    IF NotResponse(resp)
    THEN [ret |-> [message |-> <<"No response received from server">>], exc |-> OtherException]
    ELSE IF resp.kind = "array"
    THEN [ret |-> [message |-> <<"'list' object has no attribute 'get'">>],
          exc |-> AttributeError]
    ELSE IF ~Truthy(resp.success)
    THEN [ret |-> [message |-> <<"Server error: ", ErrorMsg(resp.error)>>],
          exc |-> OtherException]
    ELSE [ret |-> [result |-> IF resp.result = Absent THEN "{}" ELSE resp.result],
          exc |-> NoExc]

\* client._send_request(method, params): the request with the next id is
\* sent (params only when it is not empty), then resp is received
_send_request(method, with_params, resp) ==
    /\ _request_id < MaxRequests
    /\ _request_id' = _request_id + 1
    /\ LET r == SendRequest(resp) IN
        last' = Call("_send_request", None, "tool",
                     [request |-> [method |-> method, id |-> _request_id + 1,
                                   params |-> with_params],
                      response |-> resp],
                     r.exc, r.ret)
    /\ UNCHANGED <<read_count, pool>>
    /\ UNCHANGED session_vars
    /\ UNCHANGED server_vars
    /\ UNCHANGED transport_vars

----------------------------------------------------------------------------
(* Stream transport: BaseTransport, STDIOTransport, run_server.py *)

\* the server run_server.py hands to the TransportHandler of the transport
TransportServer == 1

\* the value receive_message returns for a line that is not JSON:
\* {"error": "parse_error", "message": ...}, an object with no method
ParseErrorMessage ==
    [object |-> TRUE, method |-> Absent, params |-> AbsentParams, id |-> Absent,
     error |-> "parse_error"]

Line(kind, value) == [kind |-> kind, value |-> value]

\* the lines a peer can write: an empty line, bytes readline cannot decode,
\* text that is not JSON, the JSON value null, any other JSON value
Lines ==
    {Line(k, Nothing) : k \in {"blank", "undecodable", "not_json", "json_null"}}
        \cup {Line("json", v) : v \in Requests \cup {NonObject}}

ReceiveMessageParseErrorIsNone(line) ==
    CASE line.kind \in {"blank", "undecodable", "json_null", "not_json"} -> Nothing
      [] line.kind = "json" -> line.value

\* STDIOTransport.receive_message for one line read: None (here Nothing) for
\* an empty line, for a line readline fails on and for the JSON value null
ReceiveMessage(line) ==
    CASE line.kind \in {"blank", "undecodable", "json_null"} -> Nothing
      [] line.kind = "not_json" -> ParseErrorMessage
      [] line.kind = "json" -> line.value

\* the except clause of BaseTransport._handle_message: {"error", "message"}
\* when the handler raised, its response r otherwise
HandleTransportExcept(r) ==
    IF r.exc = NoExc
    THEN r
    ELSE Answer([error |-> <<"Error handling message: ", r.exc>>, message |-> <<r.exc>>],
                NoExc, r.invoked, r.regs, r.initialized, r.reads)

\* BaseTransport._handle_message with the handler run_server.py sets
HandleTransport(msg) == HandleTransportExcept(HandleMessage(TransportServer, msg))

StopLeavesFlag == _is_running

\* STDIOTransport.stop: the value of _is_running afterwards
Stop == FALSE

\* the loop is left: the finally clause stops the transport, run_server returns
LoopExit(cause) ==
    /\ pc' = "returned"
    /\ _is_running' = Stop
    /\ last' = Call("run_server", TransportServer, "tool", Nothing, NoExc, [exit |-> cause])

\* transport.run_server(): start(), then the loop
run_server ==
    /\ pc = "constructed"
    /\ constructed[TransportServer]
    /\ _is_running' = TRUE
    /\ pc' = "receive"
    /\ UNCHANGED server_vars
    /\ UNCHANGED entity_vars
    /\ UNCHANGED <<last, message, response, invoked, received, sent>>

\* the loop reads a line; a message that is None ends the loop
receive_message(line) ==
    /\ pc = "receive"
    /\ _is_running
    /\ Len(received) < MaxLines
    /\ received' = Append(received, line.kind)
    /\ message' = ReceiveMessage(line)
    /\ response' = Nothing
    /\ invoked' = "none"
    /\ IF ReceiveMessage(line) = Nothing
       THEN LoopExit("no message")
       ELSE pc' = "handle" /\ UNCHANGED <<_is_running, last>>
    /\ UNCHANGED server_vars
    /\ UNCHANGED entity_vars
    /\ UNCHANGED sent

\* readline returns the empty string: stdin is closed
end_of_stream ==
    /\ pc = "receive"
    /\ _is_running
    /\ LoopExit("end of stream")
    /\ UNCHANGED server_vars
    /\ UNCHANGED entity_vars
    /\ UNCHANGED <<message, response, invoked, received, sent>>

HandleTransportCall(r) ==
    /\ response' = r.ret
    /\ ServerAfter(TransportServer, r)

_handle_messageNeverReturns ==
    /\ pc = "handle"
    /\ UNCHANGED vars

\* response = self._handle_message(message)
_handle_message ==
    /\ pc = "handle"
    /\ HandleTransportCall(HandleTransport(message))
    /\ pc' = "send"
    /\ UNCHANGED <<_is_running, last, message, received, sent>>

send_messageDropsResponse ==
    /\ pc = "send"
    /\ pc' = "receive"
    /\ UNCHANGED server_vars
    /\ UNCHANGED entity_vars
    /\ UNCHANGED <<_is_running, last, message, response, invoked, received, sent>>

\* self.send_message(response): one line written to stdout
send_message ==
    /\ pc = "send"
    /\ sent' = sent + 1
    /\ pc' = "receive"
    /\ UNCHANGED server_vars
    /\ UNCHANGED entity_vars
    /\ UNCHANGED <<_is_running, last, message, response, invoked, received>>

\* KeyboardInterrupt or another exception raised inside the try block
interrupted(e) ==
    /\ pc \in {"receive", "handle", "send"}
    /\ LoopExit(e)
    /\ UNCHANGED server_vars
    /\ UNCHANGED entity_vars
    /\ UNCHANGED <<message, response, invoked, received, sent>>

\* transport.stop() called while the loop runs
stop ==
    /\ pc \in {"receive", "handle", "send"}
    /\ _is_running
    /\ _is_running' = Stop
    /\ UNCHANGED server_vars
    /\ UNCHANGED entity_vars
    /\ UNCHANGED <<last, pc, message, response, invoked, received, sent>>

\* while self._is_running: the flag is down, the loop ends
loop_end ==
    /\ pc = "receive"
    /\ ~_is_running
    /\ LoopExit("stopped")
    /\ UNCHANGED server_vars
    /\ UNCHANGED entity_vars
    /\ UNCHANGED <<message, response, invoked, received, sent>>

----------------------------------------------------------------------------
(* One MCPClient connected to the run loop of one server by two pipes *)

\* self._request_id += 1
NextRequestId(n) == n + 1

\* f"req-{self._request_id}"
ReqId(n) ==
    CASE n = 1 -> "req-1"
      [] n = 2 -> "req-2"
      [] n = 3 -> "req-3"
      [] OTHER -> "req-4"

\* the params the SDK methods pass: none, or a mapping that is not empty
ClientParams(method) == {p \in ParamsFor(method) : p.kind = "mapping" /\ p # EmptyParams}

\* the response line as the client decodes it: success, the kind of the
\* error value, whether it has a result, and its id
ClientResponse(resp) ==
    Response("object",
             IF "success" \in DOMAIN resp
             THEN (IF resp.success THEN JsonTrue ELSE JsonFalse)
             ELSE Absent,
             IF "error" \notin DOMAIN resp THEN ErrorValue("absent", Absent)
             ELSE IF "success" \in DOMAIN resp THEN ErrorValue("dict", "boom")
             ELSE ErrorValue("str", "parse_error"),
             IF "result" \in DOMAIN resp THEN "value" ELSE Absent,
             IF "id" \in DOMAIN resp THEN resp.id ELSE Absent)

\* _send_request up to transport.send_message(request): the request with
\* the next id is written to the pipe, the client then blocks in
\* receive_message
client_send_request(method, params) ==
    /\ waiting = 0
    /\ _request_id < MaxRequests
    /\ _request_id' = NextRequestId(_request_id)
    /\ stdin' = Append(stdin, Request(method, params, ReqId(NextRequestId(_request_id))))
    /\ waiting' = NextRequestId(_request_id)
    /\ last' = Call("send_request", None, "tool",
                    [method |-> method, id |-> ReqId(NextRequestId(_request_id))],
                    NoExc, Nothing)
    /\ UNCHANGED <<read_count, pool, threads, stdout>>
    /\ UNCHANGED server_vars
    /\ UNCHANGED transport_vars

\* the loop of the server reads the next line of its stdin
server_receive_message ==
    /\ pc = "receive"
    /\ _is_running
    /\ stdin # <<>>
    /\ stdin' = Tail(stdin)
    /\ received' = Append(received, "json")
    /\ message' = ReceiveMessage(Line("json", Head(stdin)))
    /\ response' = Nothing
    /\ invoked' = "none"
    /\ pc' = "handle"
    /\ UNCHANGED <<_is_running, last, sent>>
    /\ UNCHANGED <<read_count, pool, _request_id, threads, stdout, waiting>>
    /\ UNCHANGED server_vars

server_send_messageAfterLogLine ==
    /\ pc = "send"
    /\ stdout' = stdout \o <<[response |-> [error |-> "parse_error"], request |-> Absent],
                             [response |-> response, request |-> message.id]>>
    /\ sent' = sent + 1
    /\ pc' = "receive"
    /\ UNCHANGED <<_is_running, last, message, response, invoked, received>>
    /\ UNCHANGED <<read_count, pool, _request_id, threads, stdin, waiting>>
    /\ UNCHANGED server_vars

\* the loop of the server writes its response, one line, to its stdout;
\* the line is kept with the id of the request it was produced for
server_send_message ==
    /\ pc = "send"
    /\ stdout' = Append(stdout, [response |-> response, request |-> message.id])
    /\ sent' = sent + 1
    /\ pc' = "receive"
    /\ UNCHANGED <<_is_running, last, message, response, invoked, received>>
    /\ UNCHANGED <<read_count, pool, _request_id, threads, stdin, waiting>>
    /\ UNCHANGED server_vars

\* the rest of _send_request: the next line of the pipe is taken as the
\* response to the request under way, whatever its id
client_receive_response ==
    /\ waiting # 0
    /\ stdout # <<>>
    /\ stdout' = Tail(stdout)
    /\ waiting' = 0
    /\ last' = Call("receive_response", None, "tool",
                    [id |-> ReqId(waiting), response |-> Head(stdout).response,
                     produced_for |-> Head(stdout).request],
                    SendRequest(ClientResponse(Head(stdout).response)).exc,
                    SendRequest(ClientResponse(Head(stdout).response)).ret)
    /\ UNCHANGED <<read_count, pool, _request_id, threads, stdin>>
    /\ UNCHANGED server_vars
    /\ UNCHANGED transport_vars

\* run_server.py: one server, started with or without entities, behind the
\* STDIO transport
NextTransport ==
    \/ MCPServerInit(TransportServer)
    \/ \E given \in StartupInputs : initialize(TransportServer, given)
    \/ run_server
    \/ \E line \in Lines : receive_message(line)
    \/ end_of_stream
    \/ _handle_message
    \/ send_message
    \/ \E e \in {"KeyboardInterrupt", OtherException} : interrupted(e)
    \/ stop
    \/ loop_end

SpecTransport == Init /\ [][NextTransport]_vars

\* the lines of a finite stream: every kind of line, the requests with one id
LoopLines == {l \in Lines : l.kind = "json" => (~l.value.object \/ l.value.id = "req-1")}

\* one pass of the loop at the receive point: a line of the stream is read,
\* or the stream is at its end
ReadLine == (\E line \in LoopLines : receive_message(line)) \/ end_of_stream

NextLoop ==
    \/ MCPServerInit(TransportServer)
    \/ \E given \in StartupInputs : initialize(TransportServer, given)
    \/ run_server
    \/ ReadLine
    \/ _handle_message
    \/ send_message
    \/ \E e \in {"KeyboardInterrupt", OtherException} : interrupted(e)
    \/ stop
    \/ loop_end

\* the run loop is sequential code over a finite stream: readline returns,
\* the handler returns, the write returns, and the loop test is evaluated
SpecLoop ==
    /\ Init
    /\ [][NextLoop]_vars
    /\ WF_vars(ReadLine)
    /\ WF_vars(_handle_message)
    /\ WF_vars(send_message)
    /\ WF_vars(loop_end)

\* one client and the run loop of one server
NextSession ==
    \/ MCPServerInit(TransportServer)
    \/ \E given \in StartupInputs : initialize(TransportServer, given)
    \/ run_server
    \/ \E method \in Methods : \E params \in ClientParams(method) \cup {AbsentParams} :
            client_send_request(method, params)
    \/ server_receive_message
    \/ _handle_message
    \/ server_send_message
    \/ client_receive_response

SpecSession == Init /\ [][NextSession]_vars

\* requests routed to two servers, each through its own TransportHandler
NextRouter ==
    \/ \E s \in Servers : MCPServerInit(s)
    \/ \E s \in Servers : \E given \in StartupInputs : initialize(s, given)
    \/ \E s \in Servers : \E msg \in Requests \cup {NonObject} : handle_message(s, msg)
    \/ \E s \in Servers : shutdown(s)

SpecRouter == Init /\ [][NextRouter]_vars

\* every operation of two servers, one of which may stay not initialized
NextGate ==
    \/ \E s \in Servers : MCPServerInit(s)
    \/ \E s \in Servers : \E given \in StartupInputs : initialize(s, given)
    \/ \E s \in Servers : \E e \in ServerEntities("tool") : register_tool(s, e)
    \/ \E s \in Servers : \E e \in ServerEntities("resource") : register_resource(s, e)
    \/ \E s \in Servers : \E e \in ServerEntities("prompt") : register_prompt(s, e)
    \/ \E s \in Servers : \E n \in KeysOf("tool") : \E p \in ToolParams : execute_tool(s, n, p)
    \/ \E s \in Servers : \E u \in KeysOf("resource") : read_resource(s, u)
    \/ \E s \in Servers : \E n \in KeysOf("prompt") : \E a \in PromptArgs : get_prompt_messages(s, n, a)
    \/ \E s \in Servers : list_tools(s)
    \/ \E s \in Servers : list_resources(s)
    \/ \E s \in Servers : list_prompts(s)
    \/ \E s \in Servers : get_tools_metadata(s)
    \/ \E s \in Servers : get_resources_metadata(s)
    \/ \E s \in Servers : get_prompts_metadata(s)
    \/ \E s \in Servers : shutdown(s)
    \/ \E s \in Servers : get_info(s)

SpecGate == Init /\ [][NextGate]_vars

\* the built-in tools called with any parameters
NextTool ==
    \E tool \in Tools : \E params \in ParamsOf(tool) : execute(tool, params)

SpecTool == Init /\ [][NextTool]_vars

\* ToolSchema.validate_input called with any schema and any value
NextSchema ==
    \E schema \in Schemas : \E params \in SchemaParams : validate_input(schema, params)

SpecSchema == InitRegistry /\ [][NextSchema]_vars

\* the requests that read a resource, and requests of other kinds
DynamicRequests ==
    {r \in Requests :
        r.method \in {"resource.read", "tool.list", "server.initialize"} /\ r.id = "req-1"}

\* resources read on the objects, through the servers and through the router
NextDynamic ==
    \/ \E s \in Servers : MCPServerInit(s)
    \/ \E s \in Servers : \E given \in StartupInputs : initialize(s, given)
    \/ \E e \in Entities("resource") : read(e)
    \/ \E s \in Servers : \E u \in KeysOf("resource") : read_resource(s, u)
    \/ \E s \in Servers : \E msg \in DynamicRequests : handle_message(s, msg)
    \/ \E s \in Servers : shutdown(s)

SpecDynamic == Init /\ [][NextDynamic]_vars

\* the parallel tools run with any items and any number of workers
NextParallel ==
    \/ \E tool \in ParallelTools : execute_impl_not_a_list(tool)
    \/ \E tool \in ParallelTools : \E items \in SeqsUpTo(ItemValues(tool), MaxItems) :
            \E workers \in WorkerParams : execute_impl(tool, items, workers)
    \/ worker_take
    \/ \E i \in 1..MaxItems : worker_complete(i)
    \/ map_return

SpecParallel == InitRegistry /\ [][NextParallel]_vars

\* a client whose transport hands it any response
NextClient ==
    \E method \in Methods : \E with_params \in BOOLEAN : \E resp \in Responses :
        _send_request(method, with_params, resp)

SpecClient == InitRegistry /\ [][NextClient]_vars

\* the entity objects called directly: tools, resources, prompts
NextEntity ==
    \/ \E tool \in Tools : \E params \in ParamsOf(tool) : execute(tool, params)
    \/ \E e \in ServerEntities("resource") : read(e)
    \/ \E prompt \in KeysOf("prompt") : \E arguments \in ArgumentsOf(prompt) :
            get_messages(prompt, arguments)

SpecEntity == Init /\ [][NextEntity]_vars

----------------------------------------------------------------------------
(* Properties *)

RegisterOps == {"register_tool", "register_resource", "register_prompt"}

ServerReads == {"execute_tool", "read_resource", "get_prompt_messages"}

\* C1: in every registry, register(e) with a key that is not registered
\* raises nothing, makes contains(key) true, makes get(key) return that very
\* entity e and makes the size grow by exactly one.
C1_RegisterInserts ==
    [][\A k \in Kinds :
        (/\ last'.op = "register"
         /\ last'.kind = k
         /\ ~Contains(registries[k], last'.arg.key))
        => (/\ last'.exc = NoExc
            /\ Contains(registries'[k], last'.arg.key)
            /\ Get(registries'[k], last'.arg.key).ret = last'.arg
            /\ Size(registries'[k]) = Size(registries[k]) + 1)]_vars

\* a second entity has been registered next to a first one
C1_Witness ==
    /\ last.op = "register"
    /\ last.exc = NoExc
    /\ Size(registries[last.kind]) = 2
    /\ Get(registries[last.kind], last.arg.key).ret = last.arg
    /\ last.arg.id = 2

\* C2: in every registry, register(e2) with a key that is already registered
\* fails with AlreadyExists and changes nothing: get(key) still returns the
\* entity registered first and the size is the same.
C2_DuplicateRejected ==
    [][\A k \in Kinds :
        (/\ last'.op = "register"
         /\ last'.kind = k
         /\ Contains(registries[k], last'.arg.key))
        => (/\ last'.exc = ResourceAlreadyExistsError
            /\ registries' = registries
            /\ Get(registries'[k], last'.arg.key).ret = Get(registries[k], last'.arg.key).ret
            /\ Size(registries'[k]) = Size(registries[k]))]_vars

\* another entity of the same key was refused and the first one is still there
C2_Witness ==
    /\ last.op = "register"
    /\ last.exc = ResourceAlreadyExistsError
    /\ Contains(registries[last.kind], last.arg.key)
    /\ Get(registries[last.kind], last.arg.key).ret # last.arg

\* C3: in every registry, unregister(key) of a registered key removes exactly
\* that key (contains(key) becomes false, every other key keeps its entity and
\* the other registries are untouched); unregister(key) and get(key) of an
\* absent key fail with NotFound and leave the registries unchanged.
C3_UnregisterAndNotFound ==
    [][\A k \in Kinds :
        /\ (/\ last'.op = "unregister"
            /\ last'.kind = k
            /\ Contains(registries[k], last'.arg.key))
           => (/\ last'.exc = NoExc
               /\ ~Contains(registries'[k], last'.arg.key)
               /\ Size(registries'[k]) = Size(registries[k]) - 1
               /\ \A key \in KeysOf(k) \ {last'.arg.key} :
                    /\ Contains(registries'[k], key) = Contains(registries[k], key)
                    /\ Get(registries'[k], key) = Get(registries[k], key)
               /\ \A j \in Kinds \ {k} : registries'[j] = registries[j])
        /\ (/\ last'.op \in {"unregister", "get"}
            /\ last'.kind = k
            /\ ~Contains(registries[k], last'.arg.key))
           => (/\ last'.exc = ResourceNotFoundError
               /\ registries' = registries)]_vars

\* a key was removed and the other key of that registry is still registered
C3_Witness ==
    /\ last.op = "unregister"
    /\ last.exc = NoExc
    /\ ~Contains(registries[last.kind], last.arg.key)
    /\ Size(registries[last.kind]) = 1

\* every registry object in use: the ones the servers hold and the ones got
\* by calling the class
Handles(k) ==
    ({direct[k]} \cup {server_registry[s][k] : s \in {x \in Servers : constructed[x]}}) \ {None}

\* C4: there is exactly one registry per entity kind however many times the
\* class is called, by servers or directly: every handle is the one object
\* _instance, so all of them read and write the same entries.
C4_OneRegistryPerKind ==
    \A k \in Kinds :
        /\ allocated[k] <= 1
        /\ \A h \in Handles(k) : h = _instance[k]
        /\ Cardinality(Handles(k)) <= 1

\* both servers and a direct caller hold a tool registry with an entry in it
C4_Witness ==
    /\ \A s \in Servers : constructed[s]
    /\ direct["tool"] # None
    /\ Size(registries["tool"]) > 0
    /\ last.op = "get_info"
    /\ last.ret.tool_count = Size(registries["tool"])

\* C5: initialize on a server that is already initialized raises nothing,
\* leaves it initialized and leaves the three registries as they were.
C5_InitializeIdempotent ==
    [][\A s \in Servers :
        (/\ last'.op = "initialize"
         /\ last'.server = s
         /\ _initialized[s])
        => (/\ last'.exc = NoExc
            /\ _initialized'[s]
            /\ registries' = registries)]_vars

\* initialize returned at once on an initialized server whose registries hold entries
C5_Witness ==
    /\ last.op = "initialize"
    /\ last.ret.status = "already initialized"
    /\ _initialized[last.server]
    /\ Cleared(registries) > 0

\* every provided entity whose key was free is registered afterwards
GivenWithFreeKeyRegistered ==
    \A k \in Kinds : \A i \in 1..Len(last'.arg[k]) :
        ~Contains(registries[k], last'.arg[k][i].key)
            => Contains(registries'[k], last'.arg[k][i].key)

\* C6: initialize on a server that is not initialized never raises, and a
\* registration that fails does not stop the others: every provided entity
\* whose key was free is registered afterwards.
C6_FailureDoesNotAbort ==
    [][\A s \in Servers :
        (/\ last'.op = "initialize"
         /\ last'.server = s
         /\ ~_initialized[s])
        => (/\ last'.exc = NoExc
            /\ GivenWithFreeKeyRegistered)]_vars

\* initialize raised ResourceAlreadyExistsError, left the server not
\* initialized and never reached a provided entity whose key is free
C6_Witness ==
    /\ last.op = "initialize"
    /\ last.exc = ResourceAlreadyExistsError
    /\ raise_on_critical
    /\ ~_initialized[last.server]
    /\ \E k \in Kinds : \E i \in 1..Len(last.arg[k]) :
            ~Contains(registries[k], last.arg[k][i].key)

\* C7: when initialize has gone through all the provided entities on a server
\* that was not initialized (it returned), the server is initialized, also
\* when every registration failed.
C7_InitializedAfterAll ==
    [][\A s \in Servers :
        (/\ last'.op = "initialize"
         /\ last'.server = s
         /\ ~_initialized[s]
         /\ last'.exc = NoExc)
        => _initialized'[s]]_vars

\* initialize was given entities, every registration failed, the server is initialized
C7_Witness ==
    /\ last.op = "initialize"
    /\ last.exc = NoExc
    /\ last.ret.status = "initialized"
    /\ last.ret.errors > 0
    /\ last.ret.errors = Len(last.arg.tool) + Len(last.arg.resource) + Len(last.arg.prompt)
    /\ _initialized[last.server]

\* C8: register_tool, register_resource and register_prompt on a server that
\* is not initialized fail with ServiceError and leave the registries
\* unchanged; on an initialized server they register the entity under its
\* key when the key is free and fail with AlreadyExists, changing nothing,
\* when it is taken.
C8_RegisterNeedsInitialized ==
    [][\A s \in Servers :
        (/\ last'.op \in RegisterOps
         /\ last'.server = s)
        => IF ~_initialized[s]
           THEN /\ last'.exc = ServiceError
                /\ registries' = registries
           ELSE IF Contains(registries[last'.kind], last'.arg.key)
           THEN /\ last'.exc = ResourceAlreadyExistsError
                /\ registries' = registries
           ELSE /\ last'.exc = NoExc
                /\ Get(registries'[last'.kind], last'.arg.key).ret = last'.arg
                /\ Size(registries'[last'.kind]) = Size(registries[last'.kind]) + 1]_vars

\* a registration was refused on a server that is not initialized while the
\* key was free and the other server had filled the registry
C8_Witness ==
    /\ last.op \in RegisterOps
    /\ last.exc = ServiceError
    /\ ~_initialized[last.server]
    /\ ~Contains(registries[last.kind], last.arg.key)
    /\ Size(registries[last.kind]) > 0

\* C9: shutdown never raises and leaves the server not initialized; on an
\* initialized server it leaves the tool, resource and prompt registries empty.
C9_ShutdownClears ==
    [][\A s \in Servers :
        (/\ last'.op = "shutdown"
         /\ last'.server = s)
        => (/\ last'.exc = NoExc
            /\ ~_initialized'[s]
            /\ _initialized[s] => \A k \in Kinds : registries'[k] = <<>>)]_vars

\* a shutdown cleared entries of more than one registry
C9_Witness ==
    /\ last.op = "shutdown"
    /\ last.ret.status = "shutdown"
    /\ last.ret.cleared >= 2
    /\ \A k \in Kinds : registries[k] = <<>>
    /\ ~_initialized[last.server]

\* C10 as stated: before initialize, each of execute_tool, read_resource and
\* get_prompt_messages returns {success: false, error: "Server not
\* initialized"} without raising and without touching the registries.
C10_Original ==
    [][\A s \in Servers :
        (/\ last'.op \in ServerReads
         /\ last'.server = s
         /\ ~_initialized[s])
        => (/\ last'.exc = NoExc
            /\ "success" \in DOMAIN last'.ret
            /\ last'.ret.success = FALSE
            /\ last'.ret.error = NotInitialized
            /\ registries' = registries)]_vars

\* C10 amended: before initialize, none of the three raises or touches the
\* registries; execute_tool and get_prompt_messages return {success: false,
\* error: "Server not initialized"}, read_resource returns {error: "Server
\* not initialized"} with no success field.
C10_NotInitializedInBand ==
    [][\A s \in Servers :
        (/\ last'.op \in ServerReads
         /\ last'.server = s
         /\ ~_initialized[s])
        => (/\ last'.exc = NoExc
            /\ registries' = registries
            /\ _initialized' = _initialized
            /\ IF last'.op = "read_resource"
               THEN last'.ret = [error |-> NotInitialized]
               ELSE last'.ret = [success |-> FALSE, error |-> NotInitialized])]_vars

\* read_resource answered on a server that is not initialized although the
\* resource is registered
C10_Witness ==
    /\ last.op = "read_resource"
    /\ ~_initialized[last.server]
    /\ last.exc = NoExc
    /\ Contains(registries["resource"], last.arg.uri)
    /\ last.ret = [error |-> NotInitialized]

\* the server operations that report a failure while the server is not initialized
FailingOps == ServerReads \cup RegisterOps

\* the server operations that read or clear and have nothing to do then
QuietOps ==
    {"list_tools", "list_resources", "list_prompts", "get_tools_metadata",
     "get_resources_metadata", "get_prompts_metadata", "shutdown"}

\* the call reported a failure: it raised, or it returned an in-band error
Failed(call) == call.exc # NoExc \/ "error" \in DOMAIN call.ret

ToolOutcome(ret) ==
    /\ "success" \in DOMAIN ret
    /\ IF ret.success THEN DOMAIN ret = {"success", "result"}
                      ELSE DOMAIN ret = {"success", "error"}

\* C12: BaseTool.execute never lets an exception escape, whatever the
\* parameters and whatever _execute_impl does: it returns {success: true,
\* result} or {success: false, error}.
C12_NoExceptionEscapes ==
    [][last'.op = "execute"
        => (/\ last'.exc = NoExc
            /\ ToolOutcome(last'.ret))]_vars

\* the ValidationError of a division by zero left execute
C12_Witness ==
    /\ last.op = "execute"
    /\ last.exc = ValidationError
    /\ invoked = "_execute_impl"
    /\ raise_on_critical
    /\ last.arg.tool = "calculator"
    /\ last.arg.params.fields["operation"] = Str("divide")
    /\ last.arg.params.fields["b"] = Num(0)

\* a required field of the tool's schema is missing from the parameters
MissingRequired(tool, params) ==
    params.mapping /\ \E field \in InputSchema(tool).required : field \notin DOMAIN params.fields

\* the parameters are a mapping holding every required field with a value of
\* the declared type
PassesSchema(tool, params) ==
    /\ params.mapping
    /\ \A field \in InputSchema(tool).required :
        /\ field \in DOMAIN params.fields
        /\ params.fields[field].type = InputSchema(tool).properties[field]

C14_UnknownMethod ==
    [][(/\ last'.op = "handle_message"
        /\ last'.arg.object
        /\ DictGet(last'.arg.method) \notin Methods)
        => (/\ last'.exc = NoExc
            /\ last'.ret.success = FALSE
            /\ last'.ret.error.code = "method_not_found"
            /\ last'.ret.error.message = <<"Unknown method: ", DictGet(last'.arg.method)>>
            /\ invoked' = "none"
            /\ server_vars' = server_vars)]_vars

\* bogus.thing was refused by the handler of an initialized server that
\* holds the built-in entities
C14_Witness ==
    /\ last.op = "handle_message"
    /\ last.arg.method = "bogus.thing"
    /\ last.ret.success = FALSE
    /\ last.ret.error.code = "method_not_found"
    /\ _initialized[last.server]
    /\ \A k \in Kinds : Size(registries[k]) = 2
    /\ invoked = "none"

\* C15: every response handle_message returns echoes the request's id: a
\* request with an id token gets that very id in the response, whether the
\* response is a success, method_not_found or internal_error; a request with
\* no id (absent, or null) gets a response with no id field.
C15_IdEchoed ==
    [][(/\ last'.op = "handle_message"
        /\ last'.exc = NoExc)
        => IF last'.arg.id \notin {Absent, JsonNull}
           THEN "id" \in DOMAIN last'.ret /\ last'.ret.id = last'.arg.id
           ELSE "id" \notin DOMAIN last'.ret]_vars

\* an internal_error response carries the id of its request
C15_Witness ==
    /\ last.op = "handle_message"
    /\ last.exc = NoExc
    /\ last.arg.id = "req-1"
    /\ last.ret.success = FALSE
    /\ last.ret.error.code = "internal_error"
    /\ last.ret.id = "req-1"

\* the handler of a table method raises for this request
HandlerRaises(s, msg) ==
    /\ msg.object
    /\ DictGet(msg.method) \in Methods
    /\ Route(s, DictGet(msg.method), msg.params).exc # NoExc

\* the request lacks the argument its method requires
ArgumentMissing(msg) ==
    /\ msg.object
    /\ msg.params.kind # "not_a_mapping"
    /\ \/ msg.method \in {"tool.execute", "prompt.get_messages"} /\ Falsy(DictGet(msg.params.name))
       \/ msg.method = "resource.read" /\ Falsy(DictGet(msg.params.uri))

\* C16: an exception raised by the handler of a table method is converted
\* to {success: false, error: {code: "internal_error", message:
\* str(exception)}}; tool.execute without name, resource.read without uri
\* and prompt.get_messages without name give internal_error "... is
\* required" and call no server operation.
C16_HandlerExceptionConverted ==
    [][\A s \in Servers :
        (/\ last'.op = "handle_message"
         /\ last'.server = s)
        => (/\ HandlerRaises(s, last'.arg)
                => (/\ last'.exc = NoExc
                    /\ last'.ret.success = FALSE
                    /\ last'.ret.error.code = "internal_error"
                    /\ last'.ret.error.message = Route(s, DictGet(last'.arg.method), last'.arg.params).text)
            /\ ArgumentMissing(last'.arg)
                => (/\ last'.exc = NoExc
                    /\ last'.ret.error.code = "internal_error"
                    /\ last'.ret.error.message \in
                            {<<"Tool name is required">>, <<"Resource URI is required">>,
                             <<"Prompt name is required">>}
                    /\ invoked' = "none"))]_vars

\* the ResourceNotFoundError that execute_tool raised for an unknown tool
\* left handle_message instead of becoming an internal_error response
C16_Witness ==
    /\ last.op = "handle_message"
    /\ last.arg.method = "tool.execute"
    /\ last.arg.params.name = "unknown"
    /\ last.exc = ResourceNotFoundError
    /\ invoked = "execute_tool"
    /\ raise_on_critical
    /\ _initialized[last.server]

\* C17: handle_message never raises: for every decoded message, a message
\* that is no mapping or whose params is no mapping included, it returns a
\* response.
C17_HandleMessageNeverRaises ==
    [][last'.op = "handle_message"
        => (/\ last'.exc = NoExc
            /\ "success" \in DOMAIN last'.ret)]_vars

\* a message that is no mapping made handle_message raise AttributeError
\* under the default configuration
C17_Witness ==
    /\ last.op = "handle_message"
    /\ ~last.arg.object
    /\ last.exc = AttributeError
    /\ ~raise_on_critical

\* a response envelope: a success boolean with a result, or with an error
\* made of a code and a message
Envelope(resp) ==
    /\ "success" \in DOMAIN resp
    /\ resp.success \in BOOLEAN
    /\ IF resp.success
       THEN "result" \in DOMAIN resp
       ELSE "error" \in DOMAIN resp /\ DOMAIN resp.error = {"code", "message"}

LastLine(lines) == lines[Len(lines)]

\* C18: every line the run loop writes in answer to an input line is a
\* response envelope (a success boolean with a result, or with an error made
\* of code and message), and no input line that carries text, JSON or not,
\* ends the loop instead of being answered.
C18_EnvelopeForEveryLine ==
    [][/\ (pc = "send" /\ pc' = "receive") => Envelope(response)
       /\ (/\ received' # received
           /\ LastLine(received') \in {"json", "json_null", "not_json"})
          => pc' = "handle"]_vars

\* a line holding JSON that is no object was answered, under the default
\* configuration, with a line that is no envelope
C18_Witness ==
    /\ pc = "receive"
    /\ received = <<"json">>
    /\ sent = 1
    /\ ~message.object
    /\ ~Envelope(response)
    /\ ~raise_on_critical

\* C19: once run_server has returned, by end of stream, interrupt or
\* exception inside the loop, the transport is stopped: the running flag is
\* false in every state after the return, and it is true only between the
\* start and that exit.
C19_StoppedAfterReturn ==
    /\ pc = "returned" => ~_is_running
    /\ _is_running => pc \in {"receive", "handle", "send"}
    /\ pc = "constructed" => ~_is_running

\* the loop answered a line and was then left by an unexpected exception
C19_Witness ==
    /\ pc = "returned"
    /\ last.op = "run_server"
    /\ last.ret.exit = OtherException
    /\ sent = 1
    /\ ~_is_running

\* C20: for a line that is not JSON receive_message returns the in-band value
\* {error: "parse_error", message} and raises nothing; the loop goes on: the
\* value is handled and answered with an envelope, the answer is written and
\* the loop is back at receiving, still running unless it was stopped.
C20_ParseErrorInBand ==
    [][/\ (received' # received /\ LastLine(received') = "not_json")
          => /\ message' = ParseErrorMessage
             /\ pc' = "handle"
             /\ _is_running' = _is_running
             /\ last' = last
       /\ (pc = "handle" /\ pc' = "send" /\ LastLine(received) = "not_json")
          => /\ message = ParseErrorMessage
             /\ Envelope(response')
             /\ ~response'.success
             /\ _is_running' = _is_running
       /\ (pc = "send" /\ pc' = "receive" /\ LastLine(received) = "not_json")
          => /\ sent' = sent + 1
             /\ _is_running' = _is_running]_vars

\* a line that is not JSON was answered, and so was the request after it
C20_Witness ==
    /\ received = <<"not_json", "json">>
    /\ sent = 2
    /\ pc = "receive"
    /\ _is_running
    /\ message.object
    /\ DictGet(message.method) \in Methods
    /\ Envelope(response)
    /\ response.success

EntityOps == {"execute", "read", "get_messages"}

KeyOfCall(call) == IF call.kind = "resource" THEN call.arg.uri ELSE call.arg.name

\* a server read of a name or URI that is not registered, on an initialized server
UnknownKeyRead(call) ==
    /\ call.op \in ServerReads
    /\ _initialized[call.server]
    /\ ~Contains(registries[call.kind], KeyOfCall(call))

\* C23: on an initialized server execute_tool, read_resource and
\* get_prompt_messages with a name or URI that is not registered raise
\* nothing: they return an in-band error (success false for tools and
\* prompts, an error field for resources) and leave the registries and the
\* initialized flags as they were.
C23_UnknownNameInBand ==
    [][UnknownKeyRead(last')
        => /\ last'.exc = NoExc
           /\ "error" \in DOMAIN last'.ret
           /\ last'.kind # "resource" => last'.ret.success = FALSE
           /\ registries' = registries
           /\ _initialized' = _initialized]_vars

\* execute_tool of a name that is not registered, on an initialized server
\* with raise_on_critical set: ResourceNotFoundError left execute_tool
C23_Witness ==
    /\ last.op = "execute_tool"
    /\ UnknownKeyRead(last)
    /\ last.exc = ResourceNotFoundError
    /\ raise_on_critical

\* the same call under the default configuration: the in-band error
C23_WitnessInBand ==
    /\ last.op = "read_resource"
    /\ UnknownKeyRead(last)
    /\ last.exc = NoExc
    /\ "error" \in DOMAIN last.ret
    /\ ~raise_on_critical

\* the runtime type a type tag stands for: string is text, number is an
\* integer or a float, integer is an integer only, boolean is a bool, object
\* is a mapping, array is a sequence; another tag constrains nothing
MatchesTag(value, tag) ==
    CASE tag = "string" -> value.type = "string"
      [] tag = "number" -> value.type \in {"number", "float"}
      [] tag = "integer" -> value.type = "number"
      [] tag = "boolean" -> value.type = "boolean"
      [] tag = "object" -> value.type = "object"
      [] tag = "array" -> value.type = "array"
      [] OTHER -> TRUE

Conforms(schema, fields) ==
    /\ schema.required \subseteq DOMAIN fields
    /\ \A field \in DOMAIN fields \cap DOMAIN schema.properties :
            MatchesTag(fields[field], schema.properties[field])

\* C24: validate_input returns true exactly when every required field is
\* present and every present field the schema declares holds a value of the
\* runtime type of its tag (string: text, number: integer or float, integer:
\* integer only, boolean: bool, object: mapping, array: sequence); fields
\* the schema does not declare do not count.
C24_ValidateIsConformance ==
    [][(last'.op = "validate_input" /\ last'.arg.params.mapping)
        => /\ last'.exc = NoExc
           /\ last'.ret.valid = Conforms(last'.arg.schema, last'.arg.params.fields)]_vars

\* a bool given for a field declared integer was accepted
C24_Witness ==
    /\ last.op = "validate_input"
    /\ last.arg.params.mapping
    /\ "f" \in DOMAIN last.arg.params.fields
    /\ last.arg.params.fields["f"] = Bool
    /\ "f" \in DOMAIN last.arg.schema.properties
    /\ last.arg.schema.properties["f"] = "integer"
    /\ last.exc = NoExc
    /\ last.ret.valid

\* C25: validate_input is total: it raises for no input, an input that is no
\* mapping included, and reports a violation by returning false.
C25_ValidateNeverRaises ==
    [][last'.op = "validate_input"
        => /\ last'.exc = NoExc
           /\ last'.ret.valid \in BOOLEAN]_vars

\* validate_input(None) on a schema with a required field raised TypeError
C25_Witness ==
    /\ last.op = "validate_input"
    /\ ~last.arg.params.mapping
    /\ last.arg.schema.required # {}
    /\ last.exc = TypeError

StatusUri == "status://system"

\* the read_count a call returned when it is a read of a status resource
\* that went through, 0 for any other call
StatusReadCount(call) ==
    IF call.op = "read" /\ call.arg.key = StatusUri
    THEN call.ret.content.read_count
    ELSE IF /\ call.op = "read_resource"
            /\ call.exc = NoExc
            /\ call.arg.uri = StatusUri
            /\ "content" \in DOMAIN call.ret
    THEN call.ret.content.read_count
    ELSE IF /\ call.op = "handle_message"
            /\ call.exc = NoExc
            /\ call.arg.method = "resource.read"
            /\ call.arg.params.uri = StatusUri
            /\ call.ret.success
            /\ "content" \in DOMAIN call.ret.result
    THEN call.ret.result.content.read_count
    ELSE 0

\* the StatusResource object a call read
StatusObject(call) ==
    IF call.op = "read" THEN call.arg.id ELSE Lookup(registries["resource"], StatusUri).id

\* a read of the registered status resource through an initialized server
ReadsRegisteredStatus(call) ==
    /\ \/ call.op = "read_resource" /\ call.arg.uri = StatusUri
       \/ /\ call.op = "handle_message"
          /\ call.arg.method = "resource.read"
          /\ call.arg.params.uri = StatusUri
    /\ _initialized[call.server]
    /\ Contains(registries["resource"], StatusUri)

\* C26: a status resource is never cached: each read of a StatusResource
\* object, made on the object, through read_resource or through the
\* resource.read request, returns the number of reads that object has had
\* (the k-th read returns k), whatever calls are made between two reads; no
\* other call counts as a read.
C26_DynamicNotCached ==
    [][/\ StatusReadCount(last') > 0
          => /\ read_count[StatusObject(last')] = StatusReadCount(last') - 1
             /\ read_count' = [read_count EXCEPT ![StatusObject(last')] = @ + 1]
       /\ StatusReadCount(last') = 0 => read_count' = read_count
       /\ ReadsRegisteredStatus(last') => StatusReadCount(last') > 0
       /\ (last'.op = "read" /\ last'.arg.key = StatusUri) => StatusReadCount(last') > 0]_vars

\* the registered status resource answered its second read, made through
\* the router, with 2, after another StatusResource object was read once
C26_Witness ==
    /\ last.op = "handle_message"
    /\ StatusReadCount(last) = 2
    /\ read_count[1] = 2
    /\ read_count[2] = 1

\* C27: the batch and concurrent-fetcher tools return their results in the
\* order of the input for every order in which the workers finish: for any
\* items and any number of workers, result i is the output computed from
\* item i and count is the number of items.
C27_InputOrder ==
    [][(last'.op = "_execute_impl" /\ last'.exc = NoExc)
        => /\ Len(last'.ret.results) = Len(last'.arg.items)
           /\ \A i \in 1..Len(last'.arg.items) :
                last'.ret.results[i] = Operation(last'.arg.tool, last'.arg.items[i])
           /\ last'.ret.count = Len(last'.arg.items)]_vars

\* the fetcher returned three results after its workers had finished the
\* second and the third task before the first
C27_Witness ==
    /\ last.op = "_execute_impl"
    /\ last.exc = NoExc
    /\ last.arg.tool = "concurrent_fetcher"
    /\ last.arg.items = <<Str("a"), Str("b"), Str("a")>>
    /\ last.arg.completed = <<2, 3, 1>>
    /\ last.ret.count = 3

Raises(call, text) == call.exc # NoExc /\ call.ret.message = text

\* C28 as stated: no response raises "No response received from server"; a
\* response with success false or with no success field raises
\* "Server error: <message>"; only a response with success true returns its
\* result.
C28_Original ==
    [][last'.op = "_send_request"
        => /\ last'.arg.response.kind = "none"
                => Raises(last', <<"No response received from server">>)
           /\ (/\ last'.arg.response.kind = "object"
               /\ last'.arg.response.success \in {Absent, JsonFalse})
                => Raises(last', <<"Server error: ", ErrorMsg(last'.arg.response.error)>>)
           /\ last'.exc = NoExc
                => /\ last'.arg.response.kind = "object"
                   /\ last'.arg.response.success = JsonTrue]_vars

\* C28 amended: every outcome that is not a success is raised, none is
\* returned: no response, and an empty object, raise "No response received
\* from server"; an object whose success is absent or falsy raises
\* "Server error: <message>" (message from error.message, "Unknown error"
\* without it, the error itself when it is no object); a non-empty value
\* that is no object raises AttributeError; a result is returned exactly
\* when success is truthy, which JSON true is and so is any non-empty string.
C28_NonSuccessRaised ==
    [][last'.op = "_send_request"
        => /\ NotResponse(last'.arg.response)
                => Raises(last', <<"No response received from server">>)
           /\ (/\ last'.arg.response.kind = "object"
               /\ ~NotResponse(last'.arg.response)
               /\ ~Truthy(last'.arg.response.success))
                => Raises(last', <<"Server error: ", ErrorMsg(last'.arg.response.error)>>)
           /\ last'.arg.response.kind = "array" => last'.exc = AttributeError
           /\ last'.exc = NoExc
                <=> (/\ last'.arg.response.kind = "object"
                     /\ Truthy(last'.arg.response.success))
           /\ last'.exc = NoExc
                => last'.ret.result = IF last'.arg.response.result = Absent
                                      THEN "{}"
                                      ELSE last'.arg.response.result]_vars

\* the client received the empty object and raised "No response received
\* from server"
C28_Witness ==
    /\ last.op = "_send_request"
    /\ last.arg.response.kind = "object"
    /\ NotResponse(last.arg.response)
    /\ Raises(last, <<"No response received from server">>)

ServerInitializeRequest(call) ==
    /\ call.op = "handle_message"
    /\ call.arg.object
    /\ call.arg.method = "server.initialize"

\* C29: a server.initialize request, whatever its params and id, is answered
\* with success and {status: "initialized"} and leaves the server
\* initialized; the three registries stay as they were, no other server is
\* touched, and on a server that was initialized nothing changes.
C29_ServerInitialize ==
    [][ServerInitializeRequest(last')
        => /\ last'.exc = NoExc
           /\ last'.ret.success
           /\ last'.ret.result = [status |-> "initialized"]
           /\ _initialized'[last'.server]
           /\ registries' = registries
           /\ \A t \in Servers \ {last'.server} : _initialized'[t] = _initialized[t]
           /\ UNCHANGED <<_instance, allocated, direct, constructed, server_registry,
                          raise_on_critical, read_count>>
           /\ _initialized[last'.server] => UNCHANGED server_vars]_vars

\* a server.initialize request whose params is no mapping was answered
\* {status: "initialized"} by a server whose registries hold entities while
\* the other server is still not initialized
C29_Witness ==
    /\ ServerInitializeRequest(last)
    /\ last.arg.params.kind = "not_a_mapping"
    /\ last.exc = NoExc
    /\ last.ret.result = [status |-> "initialized"]
    /\ _initialized[last.server]
    /\ \E t \in Servers \ {last.server} : ~_initialized[t]
    /\ \E kind \in Kinds : Size(registries[kind]) > 0

\* a tool.execute request whose params is a mapping with a name
NamedToolExecute(call) ==
    /\ call.op = "handle_message"
    /\ call.arg.object
    /\ call.arg.method = "tool.execute"
    /\ call.arg.params.kind = "mapping"
    /\ ~Falsy(DictGet(call.arg.params.name))

\* the outcome of the tool run the request asks of server s
RequestedOutcome(s, params) ==
    ExecuteTool(s, DictGet(params.name), ParametersOrDefault(params.parameters)).ret

\* C30: a tool.execute request with a name is answered by an envelope with
\* success true whose result is the outcome of the tool run, also when that
\* outcome has success false; an envelope has success false only with the
\* code method_not_found or internal_error.
C30_ToolOutcomeNested ==
    [][\A s \in Servers :
        (/\ last'.op = "handle_message"
         /\ last'.server = s)
        => /\ NamedToolExecute(last')
                => /\ last'.exc = NoExc
                   /\ last'.ret.success
                   /\ last'.ret.result = RequestedOutcome(s, last'.arg.params)
           /\ (last'.exc = NoExc /\ ~last'.ret.success)
                => last'.ret.error.code \in {"method_not_found", "internal_error"}]_vars

\* tool.execute named a tool that is not registered on an initialized
\* server: no envelope was returned, the ResourceNotFoundError of
\* execute_tool left handle_message
C30_Witness ==
    /\ NamedToolExecute(last)
    /\ last.arg.params.name = "calculator"
    /\ _initialized[last.server]
    /\ Size(registries["tool"]) = 0
    /\ invoked = "execute_tool"
    /\ last.exc = ResourceNotFoundError
    /\ last.ret = Nothing

\* the kinds of line that receive_message decodes to no message
NoMessageLines == {"blank", "undecodable", "json_null"}

\* the loop has just read a line
LineRead == received' # received

\* C31: a line that decodes to no message (an empty line above all) does
\* not end the run loop: after it the transport is still running and the
\* loop is about to read the next line, so the requests that follow it are
\* received and answered.
C31_EmptyLineKeepsLoop ==
    [][(LineRead /\ received'[Len(received')] \in NoMessageLines)
        => /\ pc' = "receive"
           /\ _is_running' = _is_running]_vars

\* a request was answered, then an empty line was read: run_server returned
\* with the transport stopped although stop() was not called and the stream
\* is not closed
C31_Witness ==
    /\ received = <<"json", "blank">>
    /\ sent = 1
    /\ pc = "returned"
    /\ ~_is_running
    /\ last.op = "run_server"
    /\ last.ret = [exit |-> "no message"]

\* C32: over a finite input stream and with handler calls that return, a
\* run_server that has started eventually returns with the transport
\* stopped; each line read is consumed once; and while a handler call is
\* running nothing else happens in the loop: no line is read and nothing
\* is sent until it returns, there is no timeout.
C32_RunTerminates ==
    /\ (pc = "receive") ~> (pc = "returned" /\ ~_is_running)
    /\ [][LineRead => (Len(received') = Len(received) + 1 /\ pc = "receive")]_vars
    /\ [][pc = "handle"
            => /\ received' = received
               /\ sent' = sent
               /\ pc' \in {"handle", "send", "returned"}]_vars

\* every line of the stream was read and answered, then end of stream was
\* received and run_server returned with the transport stopped
C32_Witness ==
    /\ Len(received) = MaxLines
    /\ sent = MaxLines
    /\ pc = "returned"
    /\ ~_is_running
    /\ last.op = "run_server"
    /\ last.ret = [exit |-> "end of stream"]

\* the position of key in the listing of reg, 0 when it is not listed
Position(reg, key) ==
    IF \E i \in 1..Len(reg) : reg[i].key = key
    THEN CHOOSE i \in 1..Len(reg) : reg[i].key = key
    ELSE 0

RegisteredKeys(reg) == {reg[i].key : i \in 1..Len(reg)}

\* the keys listed before and after a step keep their relative order
SameOrder(before, after) ==
    \A i, j \in 1..Len(after) :
        i < j => \A p, q \in 1..Len(before) :
                    (before[p].key = after[i].key /\ before[q].key = after[j].key) => p < q

\* one step on a registry, its dict before and after
ListingStep(call, before, after) ==
    /\ SameOrder(before, after)
    /\ \A i, j \in 1..Len(after) : after[i].key = after[j].key => i = j
    /\ (call.op = "list_keys")
        => /\ Len(call.ret.keys) = Cardinality(RegisteredKeys(after))
           /\ \A i \in 1..Len(after) : call.ret.keys[i] = after[i].key
           /\ after = before
    /\ (call.op = "register" /\ call.exc = NoExc)
        => /\ Position(before, call.arg.key) = 0
           /\ Len(after) = Len(before) + 1
           /\ Position(after, call.arg.key) = Len(after)
    /\ (call.op = "unregister" /\ call.exc = NoExc)
        => /\ Position(before, call.arg.key) > 0
           /\ Len(after) = Len(before) - 1
           /\ Position(after, call.arg.key) = 0
    /\ (call.op \in {"register", "unregister"} /\ call.exc # NoExc) => after = before
    /\ call.op = "clear" => after = <<>>

\* C33: list_keys returns exactly the registered keys, each once; a
\* successful register puts its key at the end of the listing, a
\* successful unregister takes its key out, clear empties the listing, and
\* every step leaves the keys that stay in their relative order and the
\* other registries as they are, so the listing is in insertion order and a
\* key registered again after an unregister is listed last.
C33_ListKeysInsertionOrder ==
    [][/\ ListingStep(last', registries[last'.kind], registries'[last'.kind])
       /\ \A k \in Kinds \ {last'.kind} : registries'[k] = registries[k]]_vars

\* the listing of a registry that holds three keys, the first built-in key
\* in the last place: it was registered after the two others
C33_Witness ==
    /\ last.op = "list_keys"
    /\ last.kind = "tool"
    /\ last.ret.keys = <<"echo", "custom", "calculator">>

\* C34: shutdown of a server that is not initialized changes nothing: the
\* registries keep every entry they hold, whoever registered it, and the
\* flags of both servers stay as they were.
C34_ShutdownNotInitializedNoOp ==
    [][\A s \in Servers :
        (/\ last'.op = "shutdown"
         /\ last'.server = s
         /\ ~_initialized[s])
        => (/\ last'.exc = NoExc
            /\ last'.ret.status = "nothing to shutdown"
            /\ UNCHANGED server_vars)]_vars

\* a server that is not initialized was shut down while the other server
\* is initialized and the tool registry holds an entry: the entry is still
\* registered
C34_Witness ==
    /\ last.op = "shutdown"
    /\ ~_initialized[last.server]
    /\ last.ret.status = "nothing to shutdown"
    /\ \E t \in Servers \ {last.server} : _initialized[t]
    /\ Size(registries["tool"]) > 0
    /\ direct["tool"] # None

\* a read through an initialized server whose registry of that kind is empty
ReadAfterEmptied(call) ==
    /\ call.op \in ServerReads
    /\ _initialized[call.server]
    /\ registries[call.kind] = <<>>

\* C35: shutdown of an initialized server empties the three registries for
\* every server and leaves the flag of the other server as it is; a server
\* that is still initialized then gets a not-found error returned by
\* execute_tool, read_resource and get_prompt_messages, whatever the name.
C35_ShutdownEmptiesForAll ==
    [][/\ \A s \in Servers :
            (/\ last'.op = "shutdown"
             /\ last'.server = s
             /\ _initialized[s])
            => (/\ \A k \in Kinds : registries'[k] = <<>>
                /\ \A t \in Servers \ {s} : _initialized'[t] = _initialized[t])
       /\ ReadAfterEmptied(last')
            => (/\ last'.exc = NoExc
                /\ "error" \in DOMAIN last'.ret
                /\ last'.kind # "resource" => last'.ret.success = FALSE)]_vars

\* one server is initialized, the other is not, the registries are empty:
\* get_prompt_messages of the initialized server did not return a
\* not-found error, ResourceNotFoundError left it
C35_Witness ==
    /\ last.op = "get_prompt_messages"
    /\ ReadAfterEmptied(last)
    /\ \A s \in Servers : constructed[s]
    /\ \E t \in Servers \ {last.server} : ~_initialized[t]
    /\ \A k \in Kinds : registries[k] = <<>>
    /\ last.exc = ResourceNotFoundError

\* the part of C35 about the shared registries, which holds in every
\* configuration: the shutdown of one server leaves the other one
\* initialized over empty registries, and its reads then fail with not found
C35_SharedPart ==
    [][/\ \A s \in Servers :
            (/\ last'.op = "shutdown"
             /\ last'.server = s
             /\ _initialized[s])
            => (/\ \A k \in Kinds : registries'[k] = <<>>
                /\ \A t \in Servers \ {s} : _initialized'[t] = _initialized[t])
       /\ ReadAfterEmptied(last')
            => \/ last'.exc = ResourceNotFoundError /\ raise_on_critical
               \/ last'.exc = NoExc /\ "error" \in DOMAIN last'.ret]_vars

\* the register calls of threads t and u are for the same key of the same
\* registry and both have returned
SameKeyDone(t, u) ==
    /\ t # u
    /\ threads[t].pc = "done"
    /\ threads[u].pc = "done"
    /\ threads[t].kind = threads[u].kind
    /\ threads[t].entity.key = threads[u].entity.key

Succeeded(t) == threads[t].pc = "done" /\ threads[t].exc = NoExc

\* C36: register takes no lock. Two register calls for the same key both
\* succeed only when one of them was preempted between its duplicate check
\* and its assignment; when neither was, so that each ran atomically,
\* exactly one succeeds and the registry holds its entity. In every
\* interleaving a registry holds a key once at most, and an assignment
\* leaves its own entity under the key: the later write overwrites the
\* earlier one.
C36_RegisterRace ==
    /\ [](\A t, u \in Threads :
            SameKeyDone(t, u)
                => /\ (Succeeded(t) /\ Succeeded(u))
                        => (threads[t].preempted \/ threads[u].preempted)
                   /\ (~threads[t].preempted /\ ~threads[u].preempted)
                        => (Succeeded(t) # Succeeded(u)))
    /\ [](\A k \in Kinds : \A i, j \in 1..Len(registries[k]) :
            registries[k][i].key = registries[k][j].key => i = j)
    /\ [][last'.op = "register_insert"
            => /\ Contains(registries'[last'.kind], last'.arg.key)
               /\ Lookup(registries'[last'.kind], last'.arg.key) = last'.arg
               /\ Len(registries'[last'.kind]) =
                    IF Contains(registries[last'.kind], last'.arg.key)
                    THEN Len(registries[last'.kind])
                    ELSE Len(registries[last'.kind]) + 1]_vars

\* both threads registered an entity under the same free key and both
\* returned without an error; the registry holds one entry for the key, the
\* entity of the thread that wrote last
C36_Witness ==
    /\ SameKeyDone(1, 2)
    /\ Succeeded(1)
    /\ Succeeded(2)
    /\ threads[1].entity # threads[2].entity
    /\ registries[threads[1].kind] = <<threads[2].entity>>
    /\ last.op = "register_insert"
    /\ last.server = 2

\* the entities of each list have pairwise different keys
DistinctKeys(given) ==
    \A k \in Kinds : \A i, j \in 1..Len(given[k]) : given[k][i].key = given[k][j].key => i = j

\* C37: the flag of a server goes from not initialized to initialized only
\* by its own initialize and back only by its own shutdown, which leaves
\* the registries empty; both moves are always possible, so the cycle can
\* repeat; an initialize that follows the shutdown of the same server
\* registers the entities given to it (with different keys) without any
\* error: the registries hold exactly those entities, in order, nothing
\* is left over from the earlier run.
C37_LifecycleCycle ==
    /\ [][\A s \in Servers :
            /\ (~_initialized[s] /\ _initialized'[s])
                => (last'.op = "initialize" /\ last'.server = s)
            /\ (_initialized[s] /\ ~_initialized'[s])
                => (/\ last'.op = "shutdown"
                    /\ last'.server = s
                    /\ \A k \in Kinds : registries'[k] = <<>>)
            /\ (/\ last.op = "shutdown"
                /\ last.server = s
                /\ last.ret.status = "shutdown"
                /\ last'.op = "initialize"
                /\ last'.server = s
                /\ DistinctKeys(last'.arg))
                => (/\ last'.exc = NoExc
                    /\ last'.ret.status = "initialized"
                    /\ last'.ret.errors = 0
                    /\ _initialized'[s]
                    /\ \A k \in Kinds : registries'[k] = last'.arg[k])]_vars
    /\ [](\A s \in Servers :
            constructed[s]
                => IF _initialized[s]
                   THEN ENABLED shutdown(s)
                   ELSE ENABLED initialize(s, NoEntities))

\* a server was initialized with an entity, no registration failed, and it
\* is initialized over exactly that entity while the other server, which
\* exists, is not initialized
C37_Witness ==
    /\ last.op = "initialize"
    /\ last.exc = NoExc
    /\ last.ret.status = "initialized"
    /\ last.ret.errors = 0
    /\ Cleared(last.arg) = 1
    /\ \A k \in Kinds : registries[k] = last.arg[k]
    /\ _initialized[last.server]
    /\ \E t \in Servers \ {last.server} : constructed[t] /\ ~_initialized[t]

====
